---- MODULE Spec2Model ----
(***************************************************************************)
(* Dataset viewer backend: capability tokens (app/core/security.py), the   *)
(* access-control gate (app/core/deps.py), sharing and signup              *)
(* (app/api/admin.py, app/api/auth.py) and the ingestion pipeline          *)
(* (app/api/ingest.py) over a READ COMMITTED relational store.             *)
(***************************************************************************)
EXTENDS Integers, Sequences, FiniteSets, TLC

(***************************************************************************)
(* Bounds of the model.                                                    *)
(***************************************************************************)
MaxDatasets == 2
MaxAssets == 2
MaxManifestLen == 2
MaxClock == 2
(* An append may still begin when the clock has reached MaxClock. *)
MaxAppendClock == 3
MaxUsers == 4
(* The size cap of the signed-URL cache (10000 in app/api/assets.py). *)
MaxCacheSize == 2

(***************************************************************************)
(* Identifiers.  UUIDs are positive integers; NULL is 0.  GhostId is a     *)
(* well-formed UUID that no row ever carries (a client-side uuid4()).      *)
(***************************************************************************)
NULL == 0
GhostId == 99
Orgs == {1, 2}
Req == {1, 2}

(* Seed rows (scripts/seed_dev.py style): a publisher and a viewer in      *)
(* organization 1, an admin in organization 2.  Emails are integers.       *)
SeedUsers ==
    << [org_id |-> 1, role |-> "publisher", email |-> 1],
       [org_id |-> 1, role |-> "viewer",    email |-> 2],
       [org_id |-> 2, role |-> "admin",     email |-> 3] >>

(***************************************************************************)
(* JSON values of manifest payloads (tagged).                              *)
(***************************************************************************)
U(n) == [t |-> "uuid", v |-> n]
S == [t |-> "str"]
L(s) == [t |-> "list", v |-> s]
O(r) == [t |-> "obj", v |-> r]

IsUuid(x) == x.t = "uuid"
IsStr(x) == x.t = "str"
IsInt(x) == x.t = "int"
IsUuidList(x) == x.t = "list" /\ \A k \in 1..Len(x.v) : IsUuid(x.v[k])
IsStrList(x) == x.t = "list" /\ \A k \in 1..Len(x.v) : IsStr(x.v[k]) \/ IsUuid(x.v[k])

(***************************************************************************)
(* app/services/item_registry.py                                           *)
(***************************************************************************)
get_supported_item_types ==
    {"image_pair_compare", "image_ranked_gallery", "video_with_timeline", "audio_with_captions"}

(* A pydantic model with extra="forbid": the coarse kind of the first      *)
(* failure, or "ok".  required is the set of fields without a default,     *)
(* wellTyped says that every field present has its declared type.          *)
ShapeCheck(p, declared, required, wellTyped) ==
    IF ~(DOMAIN p \subseteq declared) THEN "extra_forbidden"
    ELSE IF ~(required \subseteq DOMAIN p) THEN "missing_required"
    ELSE IF ~wellTyped THEN "wrong_type"
    ELSE "ok"

FullRankTyped(f, x) ==
    CASE f = "order" -> IsStrList(x)
      [] f = "annotator_count" -> IsInt(x)
      [] OTHER -> TRUE
FullRankData(d) == ShapeCheck(d, {"order", "annotator_count"}, {"order", "annotator_count"},
               \A f \in DOMAIN d : FullRankTyped(f, d[f]))

ScoresTyped(f, x) ==
    CASE f = "scores" -> x.t = "obj"
      [] f = "scale" -> IsStr(x)
      [] OTHER -> TRUE
ScoresData(d) == ShapeCheck(d, {"scores", "scale"}, {"scores", "scale"},
               \A f \in DOMAIN d : ScoresTyped(f, d[f]))

RankingsTyped(f, x) ==
    CASE f = "method" -> x.t = "method" /\ x.v \in {"pairwise", "full_rank", "scores"}
      [] f = "data" -> x.t = "obj"
      [] OTHER -> TRUE
RankingsPayload(r) ==
    LET shape == ShapeCheck(r, {"method", "data"}, {"method", "data"},
                            \A f \in DOMAIN r : RankingsTyped(f, r[f]))
    IN IF shape # "ok" THEN shape
       ELSE IF r.method.v = "full_rank" THEN FullRankData(r.data.v)
       ELSE IF r.method.v = "scores" THEN ScoresData(r.data.v)
       ELSE "ok"

ImagePairTyped(f, x) ==
    CASE f \in {"left_asset_id", "right_asset_id"} -> IsUuid(x)
      [] f = "prompt" -> IsStr(x)
      [] OTHER -> x.t = "obj"
ImagePairComparePayload(p) ==
    ShapeCheck(p, {"left_asset_id", "right_asset_id", "prompt", "metadata"},
               {"left_asset_id", "right_asset_id", "prompt"},
               \A f \in DOMAIN p : ImagePairTyped(f, p[f]))

GalleryTyped(f, x) ==
    CASE f = "asset_ids" -> IsUuidList(x) /\ Len(x.v) >= 2
      [] f = "prompt" -> IsStr(x)
      [] f = "rankings" -> x.t = "obj"
      [] OTHER -> x.t = "obj"
ImageRankedGalleryPayload(p) ==
    LET shape == ShapeCheck(p, {"asset_ids", "prompt", "rankings", "metadata"},
                            {"asset_ids", "prompt", "rankings"},
                            \A f \in DOMAIN p : GalleryTyped(f, p[f]))
    IN IF shape # "ok" THEN shape ELSE RankingsPayload(p.rankings.v)

VideoTyped(f, x) ==
    CASE f \in {"video_asset_id", "poster_image_asset_id"} -> IsUuid(x)
      [] OTHER -> x.t = "obj"
VideoWithTimelinePayload(p) ==
    ShapeCheck(p, {"video_asset_id", "poster_image_asset_id", "metadata"}, {"video_asset_id"},
               \A f \in DOMAIN p : VideoTyped(f, p[f]))

AudioTyped(f, x) ==
    CASE f = "audio_asset_id" -> IsUuid(x)
      [] OTHER -> x.t = "obj"
AudioWithCaptionsPayload(p) ==
    ShapeCheck(p, {"audio_asset_id", "metadata"}, {"audio_asset_id"},
               \A f \in DOMAIN p : AudioTyped(f, p[f]))

(* model.model_validate(payload) of the registry entry: "ok" or the kind   *)
(* of the pydantic ValidationError; an unregistered type is a ValueError.  *)
ModelValidate(item_type, payload) ==
    CASE item_type = "image_pair_compare" -> ImagePairComparePayload(payload)
      [] item_type = "image_ranked_gallery" -> ImageRankedGalleryPayload(payload)
      [] item_type = "video_with_timeline" -> VideoWithTimelinePayload(payload)
      [] item_type = "audio_with_captions" -> AudioWithCaptionsPayload(payload)
      [] OTHER -> "value_error"

validate_payload(item_type, payload) == ModelValidate(item_type, payload)

SeqToSet(s) == {s[k] : k \in 1..Len(s)}

(* The referenced asset ids, or the marker "raise" when the validating     *)
(* extractor throws (unregistered type, or model_validate fails).          *)
extract_asset_ids(item_type, payload) ==
    IF ModelValidate(item_type, payload) # "ok" THEN [raised |-> TRUE, ids |-> {}]
    ELSE CASE item_type = "image_pair_compare" ->
                [raised |-> FALSE, ids |-> {payload.left_asset_id.v, payload.right_asset_id.v}]
           [] item_type = "image_ranked_gallery" ->
                [raised |-> FALSE, ids |-> {x.v : x \in SeqToSet(payload.asset_ids.v)}]
           [] item_type = "video_with_timeline" ->
                [raised |-> FALSE,
                 ids |-> {payload.video_asset_id.v} \cup
                         (IF "poster_image_asset_id" \in DOMAIN payload
                          THEN {payload.poster_image_asset_id.v} ELSE {})]
           [] OTHER ->
                [raised |-> FALSE, ids |-> {payload.audio_asset_id.v}]

TimelineTyped(f, x) == x.t = "list"
CaptionsTyped(f, x) == x.t = "list"
validate_annotation(schema, data) ==
    CASE schema = "timeline_v1" -> ShapeCheck(data, {"events"}, {}, \A f \in DOMAIN data : TimelineTyped(f, data[f]))
      [] schema = "captions_v1" -> ShapeCheck(data, {"segments"}, {}, \A f \in DOMAIN data : CaptionsTyped(f, data[f]))
      [] OTHER -> "value_error"

(***************************************************************************)
(* Manifest items.  The state keeps a manifest item as a short code; Doc   *)
(* is the JSON document {type, payload, annotations} the code stands for.  *)
(***************************************************************************)
Code(k, a, b, ann) == [k |-> k, a |-> a, b |-> b, ann |-> ann]

DocType(c) ==
    CASE c.k \in {"audio", "audio_extra"} -> "audio_with_captions"
      [] c.k \in {"pair", "pair_missing"} -> "image_pair_compare"
      [] c.k = "video" -> "video_with_timeline"
      [] c.k \in {"gallery", "gallery_badrank"} -> "image_ranked_gallery"
      [] OTHER -> "text_note"

DocPayload(c) ==
    CASE c.k = "audio" -> [audio_asset_id |-> U(c.a)]
      [] c.k = "audio_extra" -> [audio_asset_id |-> U(c.a), extra_field |-> S]
      [] c.k = "pair" -> [left_asset_id |-> U(c.a), right_asset_id |-> U(c.b), prompt |-> S]
      [] c.k = "pair_missing" -> [left_asset_id |-> U(c.a), prompt |-> S]
      [] c.k = "video" -> [video_asset_id |-> U(c.a), poster_image_asset_id |-> U(c.b)]
      [] c.k = "gallery" ->
            [asset_ids |-> L(<<U(c.a), U(c.b)>>), prompt |-> S,
             rankings |-> O([method |-> [t |-> "method", v |-> "pairwise"], data |-> O(<<>>)])]
      [] c.k = "gallery_badrank" ->
            [asset_ids |-> L(<<U(c.a), U(c.b)>>), prompt |-> S,
             rankings |-> O([method |-> [t |-> "method", v |-> "full_rank"],
                             data |-> O([order |-> L(<<U(c.a)>>), annotator_count |-> S])])]
      [] OTHER -> <<>>

DocAnnotations(c) ==
    CASE c.ann = "captions" -> << [schema |-> "captions_v1", data |-> [segments |-> L(<<>>)]] >>
      [] c.ann = "timeline_extra" -> << [schema |-> "timeline_v1", data |-> [events |-> L(<<>>), extra |-> S]] >>
      [] c.ann = "bad_schema" -> << [schema |-> "boxes_v9", data |-> <<>>] >>
      [] OTHER -> << >>

Doc(c) == [type |-> DocType(c), payload |-> DocPayload(c), annotations |-> DocAnnotations(c)]

(***************************************************************************)
(* app/core/config.py and app/services/upload_validation.py                *)
(***************************************************************************)
upload_token_ttl_seconds == 300
signed_url_ttl_seconds == 300
MB == 1024 * 1024
ALLOWLIST ==
    {"image/png", "image/jpeg", "image/webp", "video/mp4", "audio/mpeg", "audio/wav",
     "audio/webm", "text/vtt", "application/json"}
LIMITS == [image |-> 50 * MB, video |-> 500 * MB, audio |-> 100 * MB, other |-> 10 * MB]

is_content_type_allowed(content_type) == content_type \in ALLOWLIST
max_byte_size_for_kind(kind) == IF kind \in DOMAIN LIMITS THEN LIMITS[kind] ELSE LIMITS["other"]

(* TRUE when validate_file_spec returns, FALSE when it raises ValueError. *)
validate_file_spec(kind, content_type, byte_size) ==
    /\ kind \in DOMAIN LIMITS
    /\ is_content_type_allowed(content_type)
    /\ ~(byte_size <= 0 \/ byte_size > max_byte_size_for_kind(kind))

(***************************************************************************)
(* app/core/security.py.  A token string is the sequence of its colon-     *)
(* separated components, each a text: the str() of a UUID, a decimal       *)
(* numeral (canonical as str(int) writes it, or not: "012", "+12"), a hex  *)
(* digest, or junk.  HMAC-SHA256 is an ideal MAC: the pair (key, message). *)
(***************************************************************************)
secret_key == "server"
Txt(kind, val, canon) == [txt |-> kind, val |-> val, canon |-> canon, key |-> "", msg |-> <<>>]
StrUuid(id) == Txt("uuid", id, TRUE)
StrInt(n) == Txt("num", n, TRUE)
Junk == Txt("junk", 0, TRUE)
hmac_hexdigest(key, message) == [txt |-> "hex", val |-> 0, canon |-> TRUE, key |-> key, msg |-> message]

(* int(text): a ValueError unless the text is a numeral. *)
IntParses(x) == x.txt = "num"
IntOf(x) == x.val

create_asset_stream_token(asset_id, org_id, now) ==
    LET message == <<StrUuid(asset_id), StrUuid(org_id), StrInt(now)>>
    IN Append(message, hmac_hexdigest(secret_key, message))

(* Variant: the prefix comparison covers the asset id only. *)
verify_asset_stream_token_any_org(token, asset_id, org_id, now) ==
    IF Len(token) < 2 THEN FALSE
    ELSE LET message == SubSeq(token, 1, Len(token) - 1)
             sig == token[Len(token)]
         IN IF sig # hmac_hexdigest(secret_key, message) THEN FALSE
            ELSE IF Len(message) # 3 THEN FALSE
            ELSE IF message[1] # StrUuid(asset_id) THEN FALSE
            ELSE IF ~IntParses(message[3]) THEN FALSE
            ELSE IF now - IntOf(message[3]) > signed_url_ttl_seconds THEN FALSE
            ELSE TRUE

verify_asset_stream_token(token, asset_id, org_id, now) ==
    IF Len(token) < 2 THEN FALSE
    ELSE LET message == SubSeq(token, 1, Len(token) - 1)
             sig == token[Len(token)]
         IN IF sig # hmac_hexdigest(secret_key, message) THEN FALSE
            ELSE IF Len(message) < 2 THEN FALSE
            ELSE LET pref == SubSeq(message, 1, Len(message) - 1)
                     ts == message[Len(message)]
                 IN IF pref # <<StrUuid(asset_id), StrUuid(org_id)>> THEN FALSE
                    ELSE IF ~IntParses(ts) THEN FALSE
                    ELSE IF now - IntOf(ts) > signed_url_ttl_seconds THEN FALSE
                    ELSE TRUE

create_upload_token(asset_id, org_id, dataset_id, byte_size, now) ==
    LET expiry_ts == now + upload_token_ttl_seconds
        message == <<StrUuid(asset_id), StrUuid(org_id), StrUuid(dataset_id),
                     StrInt(byte_size), StrInt(expiry_ts)>>
    IN Append(message, hmac_hexdigest(secret_key, message))

(* Variant: the declared size in the token is not compared. *)
verify_upload_token_any_size(token, asset_id, org_id, dataset_id, byte_size, now) ==
    IF Len(token) < 2 THEN FALSE
    ELSE LET message == SubSeq(token, 1, Len(token) - 1)
             sig == token[Len(token)]
             comp == message
         IN IF sig # hmac_hexdigest(secret_key, message) THEN FALSE
            ELSE IF Len(comp) # 5 THEN FALSE
            ELSE IF \/ comp[1] # StrUuid(asset_id)
                    \/ comp[2] # StrUuid(org_id)
                    \/ comp[3] # StrUuid(dataset_id) THEN FALSE
            ELSE IF ~IntParses(comp[5]) THEN FALSE
            ELSE IF now > IntOf(comp[5]) THEN FALSE
            ELSE TRUE

(* Variant: the token is refused from the second of its expiry on. *)
verify_upload_token_strict_expiry(token, asset_id, org_id, dataset_id, byte_size, now) ==
    IF Len(token) < 2 THEN FALSE
    ELSE LET message == SubSeq(token, 1, Len(token) - 1)
             sig == token[Len(token)]
             comp == message
         IN IF sig # hmac_hexdigest(secret_key, message) THEN FALSE
            ELSE IF Len(comp) # 5 THEN FALSE
            ELSE IF \/ comp[1] # StrUuid(asset_id)
                    \/ comp[2] # StrUuid(org_id)
                    \/ comp[3] # StrUuid(dataset_id) THEN FALSE
            ELSE IF ~IntParses(comp[4]) THEN FALSE
            ELSE IF IntOf(comp[4]) # byte_size THEN FALSE
            ELSE IF ~IntParses(comp[5]) THEN FALSE
            ELSE IF now >= IntOf(comp[5]) THEN FALSE
            ELSE TRUE

verify_upload_token(token, asset_id, org_id, dataset_id, byte_size, now) ==
    IF Len(token) < 2 THEN FALSE
    ELSE LET message == SubSeq(token, 1, Len(token) - 1)
             sig == token[Len(token)]
             comp == message
         IN IF sig # hmac_hexdigest(secret_key, message) THEN FALSE
            ELSE IF Len(comp) # 5 THEN FALSE
            ELSE IF \/ comp[1] # StrUuid(asset_id)
                    \/ comp[2] # StrUuid(org_id)
                    \/ comp[3] # StrUuid(dataset_id) THEN FALSE
            ELSE IF ~IntParses(comp[4]) THEN FALSE
            ELSE IF IntOf(comp[4]) # byte_size THEN FALSE
            ELSE IF ~IntParses(comp[5]) THEN FALSE
            ELSE IF now > IntOf(comp[5]) THEN FALSE
            ELSE TRUE

(***************************************************************************)
(* State.  Tables of app/db/models.py hold the COMMITTED rows; a row's id  *)
(* is its index (users, datasets, assets) or its id field (items).         *)
(***************************************************************************)
VARIABLES
    users,           \* Seq of [org_id, role, email, is_active]
    datasets,        \* Seq of [org_id, status, published_at]
    assets,          \* Seq of [org_id, dataset_id, item_id, kind, content_type, byte_size]
    items,           \* set of [id, org_id, dataset_id, doc]
    annotations,     \* set of [item_id, org_id, dataset_id, idx, schema]
    dataset_access,  \* set of [org_id, dataset_id, user_id]
    pending_share,   \* set of [org_id, dataset_id, email]
    storage,         \* Seq over assets: length of the object under the asset's storage_key, 0 = no object
    req,             \* in-flight publish / append requests, each with its own session
    clock,           \* datetime.now() readings taken so far
    ingest_enabled,  \* settings.ingest_enabled
    publish_ok,      \* per dataset: how many publish_dataset calls have returned PublishResponse
    probe            \* state outside the database that a component specification exercises:
                     \* a capability token in a client's hands and the request that presents it,
                     \* the module-level dicts of the server process, the locals of an SDK call

db == <<users, datasets, assets, items, annotations, dataset_access, pending_share>>
vars == <<users, datasets, assets, items, annotations, dataset_access, pending_share,
          storage, req, clock, ingest_enabled, publish_ok, probe>>

UserIds == 1..Len(users)
DatasetIds == 1..Len(datasets)
AssetIds == 1..Len(assets)
ItemIds == {it.id : it \in items}

NoProbe == [family |-> "none"]

IdleReq == [pc |-> "idle", op |-> "none", user |-> 0, dataset_id |-> 0, manifest |-> <<>>,
            i |-> 0, now |-> 0]

EmptyDb ==
    /\ users = [k \in 1..Len(SeedUsers) |->
                 [org_id |-> SeedUsers[k].org_id, role |-> SeedUsers[k].role,
                  email |-> SeedUsers[k].email, is_active |-> TRUE]]
    /\ datasets = <<>>
    /\ assets = <<>>
    /\ items = {}
    /\ annotations = {}
    /\ dataset_access = {}
    /\ pending_share = {}
    /\ storage = <<>>
    /\ req = [r \in Req |-> IdleReq]
    /\ clock = 0
    /\ publish_ok = <<>>

Init ==
    /\ EmptyDb
    /\ ingest_enabled \in BOOLEAN
    /\ probe = NoProbe

(***************************************************************************)
(* app/core/deps.py                                                        *)
(***************************************************************************)
NOT_FOUND == "Not found"
HTTPException(status_code, detail) == [status |-> status_code, detail |-> detail, id |-> 0]
Found(id) == [status |-> 200, detail |-> "", id |-> id]

(* The session user of a request: a user id, or 0 without a valid cookie.  *)
get_current_user(u) ==
    IF u \in UserIds /\ users[u].is_active THEN Found(u)
    ELSE HTTPException(401, "Not authenticated")

require_publisher(u) ==
    IF get_current_user(u).status # 200 THEN get_current_user(u)
    ELSE IF users[u].role \notin {"admin", "publisher"}
         THEN HTTPException(403, "Publisher or admin role required")
    ELSE Found(u)

(* Variant: every signed-in user may manage shares. *)
require_admin_or_publisher_any_role(u) ==
    IF get_current_user(u).status # 200 THEN get_current_user(u)
    ELSE Found(u)

require_admin_or_publisher(u) ==
    IF get_current_user(u).status # 200 THEN get_current_user(u)
    ELSE IF users[u].role \notin {"admin", "publisher"}
         THEN HTTPException(403, "Admin or publisher role required")
    ELSE Found(u)

(* Variant: a viewer without a grant is told the dataset is forbidden. *)
get_dataset_for_user_forbidden(dataset_id, u) ==
    IF ~(dataset_id \in DatasetIds /\ datasets[dataset_id].org_id = users[u].org_id)
    THEN HTTPException(404, NOT_FOUND)
    ELSE IF users[u].role \in {"admin", "publisher"} THEN Found(dataset_id)
    ELSE IF ~(\E da \in dataset_access :
                  /\ da.dataset_id = dataset_id
                  /\ da.user_id = u
                  /\ da.org_id = users[u].org_id)
         THEN HTTPException(403, "Forbidden")
    ELSE Found(dataset_id)

(* Variant: membership of the organization suffices. *)
get_dataset_for_user_any_member(dataset_id, u) ==
    IF ~(dataset_id \in DatasetIds /\ datasets[dataset_id].org_id = users[u].org_id)
    THEN HTTPException(404, NOT_FOUND)
    ELSE Found(dataset_id)

(* Variant: an admin or publisher reaches the datasets of every            *)
(* organization.                                                           *)
get_dataset_for_user_role_bypass(dataset_id, u) ==
    IF dataset_id \notin DatasetIds THEN HTTPException(404, NOT_FOUND)
    ELSE IF users[u].role \in {"admin", "publisher"} THEN Found(dataset_id)
    ELSE IF ~(\E da \in dataset_access :
                  /\ da.dataset_id = dataset_id
                  /\ da.user_id = u
                  /\ da.org_id = users[u].org_id)
         THEN HTTPException(404, NOT_FOUND)
    ELSE Found(dataset_id)

get_dataset_for_user(dataset_id, u) ==
    IF ~(dataset_id \in DatasetIds /\ datasets[dataset_id].org_id = users[u].org_id)
    THEN HTTPException(404, NOT_FOUND)
    ELSE IF users[u].role \in {"admin", "publisher"} THEN Found(dataset_id)
    ELSE IF ~(\E da \in dataset_access :
                  /\ da.dataset_id = dataset_id
                  /\ da.user_id = u
                  /\ da.org_id = users[u].org_id)
         THEN HTTPException(404, NOT_FOUND)
    ELSE Found(dataset_id)

(* Variant: the item's organization is checked, its dataset is not. *)
get_item_for_user_org_only(item_id, u) ==
    IF ~(\E it \in items : it.id = item_id /\ it.org_id = users[u].org_id)
    THEN HTTPException(404, NOT_FOUND)
    ELSE Found(item_id)

get_item_for_user(item_id, u) ==
    IF ~(\E it \in items : it.id = item_id /\ it.org_id = users[u].org_id)
    THEN HTTPException(404, NOT_FOUND)
    ELSE LET row == CHOOSE it \in items : it.id = item_id /\ it.org_id = users[u].org_id
         IN IF get_dataset_for_user(row.dataset_id, u).status # 200
            THEN get_dataset_for_user(row.dataset_id, u)
            ELSE Found(item_id)

get_asset_for_user(asset_id, u) ==
    IF ~(asset_id \in AssetIds /\ assets[asset_id].org_id = users[u].org_id)
    THEN HTTPException(404, NOT_FOUND)
    ELSE IF get_dataset_for_user(assets[asset_id].dataset_id, u).status # 200
         THEN get_dataset_for_user(assets[asset_id].dataset_id, u)
    ELSE Found(asset_id)

(***************************************************************************)
(* app/api/ingest.py: create draft, allocate asset slots                   *)
(***************************************************************************)
create_draft_dataset_outcome(u, limited) ==
    IF require_publisher(u).status # 200 THEN require_publisher(u)
    ELSE IF limited THEN HTTPException(429, "Too many requests")
    ELSE Found(Len(datasets) + 1)

create_draft_dataset(u, limited) ==
    LET out == create_draft_dataset_outcome(u, limited)
    IN /\ IF out.status = 200
          THEN /\ Len(datasets) < MaxDatasets
               /\ datasets' = Append(datasets,
                     [org_id |-> users[u].org_id, status |-> "draft", published_at |-> NULL])
               /\ publish_ok' = Append(publish_ok, 0)
          ELSE UNCHANGED <<datasets, publish_ok>>
       /\ UNCHANGED <<users, assets, items, annotations, dataset_access, pending_share,
                      storage, req, clock, ingest_enabled, probe>>

(* File specs a client may send.  Only the first is acceptable. *)
GoodSpec == [kind |-> "audio", content_type |-> "audio/mpeg", byte_size |-> 2]
BadSpecs ==
    { [kind |-> "image", content_type |-> "image/png", byte_size |-> 0],
      [kind |-> "image", content_type |-> "image/png", byte_size |-> 50 * MB + 1],
      [kind |-> "image", content_type |-> "text/html", byte_size |-> 1],
      [kind |-> "archive", content_type |-> "image/png", byte_size |-> 1] }
Batches == {<<GoodSpec>>, <<GoodSpec, GoodSpec>>} \cup {<<f>> : f \in BadSpecs}
           \cup {<<GoodSpec, f>> : f \in BadSpecs}

(* Variant: slots are allocated for a draft only. *)
batch_upload_urls_outcome_draft_only(u, dataset_id, files, limited) ==
    IF require_publisher(u).status # 200 THEN require_publisher(u)
    ELSE IF limited THEN HTTPException(429, "Too many requests")
    ELSE IF get_dataset_for_user(dataset_id, u).status # 200 THEN get_dataset_for_user(dataset_id, u)
    ELSE IF datasets[dataset_id].status # "draft"
         THEN HTTPException(409, "Dataset must be draft or published to upload assets")
    ELSE IF \E k \in 1..Len(files) :
                ~validate_file_spec(files[k].kind, files[k].content_type, files[k].byte_size)
         THEN HTTPException(422, "invalid file spec")
    ELSE Found(dataset_id)

batch_upload_urls_outcome(u, dataset_id, files, limited) ==
    IF require_publisher(u).status # 200 THEN require_publisher(u)
    ELSE IF limited THEN HTTPException(429, "Too many requests")
    ELSE IF get_dataset_for_user(dataset_id, u).status # 200 THEN get_dataset_for_user(dataset_id, u)
    ELSE IF datasets[dataset_id].status \notin {"draft", "published"}
         THEN HTTPException(409, "Dataset must be draft or published to upload assets")
    ELSE IF \E k \in 1..Len(files) :
                ~validate_file_spec(files[k].kind, files[k].content_type, files[k].byte_size)
         THEN HTTPException(422, "invalid file spec")
    ELSE Found(dataset_id)

(* The loop over the files checks a spec, inserts its row and mints its     *)
(* upload token before it looks at the next spec: the number of tokens     *)
(* minted when the loop returns or raises.                                 *)
batch_upload_urls_minted(files) ==
    IF \A k \in 1..Len(files) :
           validate_file_spec(files[k].kind, files[k].content_type, files[k].byte_size)
    THEN Len(files)
    ELSE (CHOOSE k \in 1..Len(files) :
             /\ ~validate_file_spec(files[k].kind, files[k].content_type, files[k].byte_size)
             /\ \A j \in 1..(k - 1) :
                   validate_file_spec(files[j].kind, files[j].content_type, files[j].byte_size)) - 1

NewAssets(u, dataset_id, files) ==
    [k \in 1..Len(files) |->
        [org_id |-> users[u].org_id, dataset_id |-> dataset_id, item_id |-> NULL,
         kind |-> files[k].kind, content_type |-> files[k].content_type,
         byte_size |-> files[k].byte_size]]

batch_upload_urls(u, dataset_id, files, limited) ==
    LET out == batch_upload_urls_outcome(u, dataset_id, files, limited)
    IN /\ IF out.status = 200
          THEN /\ Len(assets) + Len(files) <= MaxAssets
               /\ assets' = assets \o NewAssets(u, dataset_id, files)
               /\ storage' = storage \o [k \in 1..Len(files) |-> 0]
          ELSE UNCHANGED <<assets, storage>>
       /\ UNCHANGED <<users, datasets, items, annotations, dataset_access, pending_share,
                      req, clock, ingest_enabled, probe, publish_ok>>

(***************************************************************************)
(* app/api/ingest.py: upload_asset.  The PUT carries an optional session   *)
(* (u = 0: none), a token, and a body of content_length bytes; now is the  *)
(* server's time.time() during the request.                                *)
(***************************************************************************)
(* Variant: the length of the body is not compared. *)
upload_asset_outcome_any_length(u, asset_id, token, content_length, now) ==
    LET asset == assets[asset_id]
        tokenOk == verify_upload_token(token, asset_id, asset.org_id, asset.dataset_id,
                                       asset.byte_size, now)
    IN IF get_current_user(u).status = 200 /\ users[u].role \notin {"admin", "publisher"}
       THEN HTTPException(403, "Publisher or admin role required")
       ELSE IF get_current_user(u).status = 200 /\ get_asset_for_user(asset_id, u).status # 200
       THEN get_asset_for_user(asset_id, u)
       ELSE IF get_current_user(u).status # 200 /\ asset_id \notin AssetIds
       THEN HTTPException(404, NOT_FOUND)
       ELSE IF get_current_user(u).status # 200 /\ ~tokenOk
       THEN HTTPException(401, "Invalid or expired upload token")
       ELSE IF ~(/\ asset.dataset_id \in DatasetIds
                 /\ datasets[asset.dataset_id].org_id = asset.org_id
                 /\ datasets[asset.dataset_id].status \in {"draft", "published"})
       THEN HTTPException(409, "Dataset must be draft or published")
       ELSE IF asset.item_id # NULL
       THEN HTTPException(409, "Asset already linked to an item")
       ELSE IF ~tokenOk
       THEN HTTPException(403, "Invalid or expired token")
       ELSE Found(asset_id)

(* Variant: a linked asset accepts new bytes. *)
upload_asset_outcome_relink(u, asset_id, token, content_length, now) ==
    LET asset == assets[asset_id]
        tokenOk == verify_upload_token(token, asset_id, asset.org_id, asset.dataset_id,
                                       asset.byte_size, now)
    IN IF get_current_user(u).status = 200 /\ users[u].role \notin {"admin", "publisher"}
       THEN HTTPException(403, "Publisher or admin role required")
       ELSE IF get_current_user(u).status = 200 /\ get_asset_for_user(asset_id, u).status # 200
       THEN get_asset_for_user(asset_id, u)
       ELSE IF get_current_user(u).status # 200 /\ asset_id \notin AssetIds
       THEN HTTPException(404, NOT_FOUND)
       ELSE IF get_current_user(u).status # 200 /\ ~tokenOk
       THEN HTTPException(401, "Invalid or expired upload token")
       ELSE IF ~(/\ asset.dataset_id \in DatasetIds
                 /\ datasets[asset.dataset_id].org_id = asset.org_id
                 /\ datasets[asset.dataset_id].status \in {"draft", "published"})
       THEN HTTPException(409, "Dataset must be draft or published")
       ELSE IF ~tokenOk
       THEN HTTPException(403, "Invalid or expired token")
       ELSE IF content_length # asset.byte_size
       THEN HTTPException(422, "Size mismatch")
       ELSE Found(asset_id)

(* Variant: a session stands in for the token. *)
upload_asset_outcome_session_skips_token(u, asset_id, token, content_length, now) ==
    LET asset == assets[asset_id]
        tokenOk == verify_upload_token(token, asset_id, asset.org_id, asset.dataset_id,
                                       asset.byte_size, now)
    IN IF get_current_user(u).status = 200 /\ users[u].role \notin {"admin", "publisher"}
       THEN HTTPException(403, "Publisher or admin role required")
       ELSE IF get_current_user(u).status = 200 /\ get_asset_for_user(asset_id, u).status # 200
       THEN get_asset_for_user(asset_id, u)
       ELSE IF get_current_user(u).status # 200 /\ asset_id \notin AssetIds
       THEN HTTPException(404, NOT_FOUND)
       ELSE IF get_current_user(u).status # 200 /\ ~tokenOk
       THEN HTTPException(401, "Invalid or expired upload token")
       ELSE IF ~(/\ asset.dataset_id \in DatasetIds
                 /\ datasets[asset.dataset_id].org_id = asset.org_id
                 /\ datasets[asset.dataset_id].status \in {"draft", "published"})
       THEN HTTPException(409, "Dataset must be draft or published")
       ELSE IF asset.item_id # NULL
       THEN HTTPException(409, "Asset already linked to an item")
       ELSE IF get_current_user(u).status # 200 /\ ~tokenOk
       THEN HTTPException(403, "Invalid or expired token")
       ELSE IF content_length # asset.byte_size
       THEN HTTPException(422, "Size mismatch")
       ELSE Found(asset_id)

upload_asset_outcome(u, asset_id, token, content_length, now) ==
    LET asset == assets[asset_id]
        tokenOk == verify_upload_token(token, asset_id, asset.org_id, asset.dataset_id,
                                       asset.byte_size, now)
    IN IF get_current_user(u).status = 200 /\ users[u].role \notin {"admin", "publisher"}
       THEN HTTPException(403, "Publisher or admin role required")
       ELSE IF get_current_user(u).status = 200 /\ get_asset_for_user(asset_id, u).status # 200
       THEN get_asset_for_user(asset_id, u)
       ELSE IF get_current_user(u).status # 200 /\ asset_id \notin AssetIds
       THEN HTTPException(404, NOT_FOUND)
       ELSE IF get_current_user(u).status # 200 /\ ~tokenOk
       THEN HTTPException(401, "Invalid or expired upload token")
       ELSE IF ~(/\ asset.dataset_id \in DatasetIds
                 /\ datasets[asset.dataset_id].org_id = asset.org_id
                 /\ datasets[asset.dataset_id].status \in {"draft", "published"})
       THEN HTTPException(409, "Dataset must be draft or published")
       ELSE IF asset.item_id # NULL
       THEN HTTPException(409, "Asset already linked to an item")
       ELSE IF ~tokenOk
       THEN HTTPException(403, "Invalid or expired token")
       ELSE IF content_length # asset.byte_size
       THEN HTTPException(422, "Size mismatch")
       ELSE Found(asset_id)

upload_asset(u, asset_id, token, content_length, now) ==
    LET out == upload_asset_outcome(u, asset_id, token, content_length, now)
    IN /\ IF out.status = 200
          THEN storage' = [storage EXCEPT ![asset_id] = content_length]
          ELSE UNCHANGED storage
       /\ UNCHANGED <<users, datasets, assets, items, annotations, dataset_access,
                      pending_share, req, clock, ingest_enabled, probe, publish_ok>>

(* The same handler in the two steps other requests can come between: the  *)
(* row is loaded and every check is made, the handler awaits the body, and *)
(* then the file is written; the row is not read again and no lock is      *)
(* held.  A request between the two steps is in flight with pc = "upload". *)
upload_asset_load(r, u, asset_id, token, content_length, now) ==
    LET out == upload_asset_outcome(u, asset_id, token, content_length, now)
    IN /\ req[r].pc = "idle"
       /\ IF out.status = 200
          THEN req' = [req EXCEPT ![r] =
                          [pc |-> "upload", op |-> "upload", user |-> u,
                           dataset_id |-> assets[asset_id].dataset_id, manifest |-> <<>>,
                           i |-> 0, now |-> 0, asset_id |-> asset_id]]
          ELSE UNCHANGED req
       /\ UNCHANGED <<users, datasets, assets, items, annotations, dataset_access,
                      pending_share, storage, clock, ingest_enabled, probe, publish_ok>>

(* file_path.write_bytes(content): the body has the declared length. *)
upload_asset_write(r) ==
    /\ req[r].pc = "upload"
    /\ storage' = [storage EXCEPT ![req[r].asset_id] = assets[req[r].asset_id].byte_size]
    /\ req' = [req EXCEPT ![r] = IdleReq]
    /\ UNCHANGED <<users, datasets, assets, items, annotations, dataset_access,
                   pending_share, clock, ingest_enabled, probe, publish_ok>>

(* Variant: the bytes received before the client went away are written. *)
upload_asset_abandon_keeps_partial(r) ==
    /\ req[r].pc = "upload"
    /\ storage' = [storage EXCEPT ![req[r].asset_id] = assets[req[r].asset_id].byte_size - 1]
    /\ req' = [req EXCEPT ![r] = IdleReq]
    /\ UNCHANGED <<users, datasets, assets, items, annotations, dataset_access,
                   pending_share, clock, ingest_enabled, probe, publish_ok>>

(* The client goes away while the handler awaits the body: request.body()  *)
(* raises and the handler ends before write_bytes.                         *)
upload_asset_abandon(r) ==
    /\ req[r].pc = "upload"
    /\ req' = [req EXCEPT ![r] = IdleReq]
    /\ UNCHANGED <<users, datasets, assets, items, annotations, dataset_access,
                   pending_share, storage, clock, ingest_enabled, probe, publish_ok>>

(* app/services/storage/local.py: the upload URL of an asset, as the path  *)
(* parameter and the query parameter a client's PUT to it carries.         *)
create_presigned_put(asset_id, org_id, dataset_id, byte_size, now) ==
    [asset_id |-> asset_id,
     token |-> create_upload_token(asset_id, org_id, dataset_id, byte_size, now)]

(* Tokens a client can present: the one minted for an asset row when its   *)
(* slot was allocated at time 0, the same message signed with a key that   *)
(* is not the server's, and a string without a colon.                      *)
MintedUploadToken(a) ==
    create_upload_token(a, assets[a].org_id, assets[a].dataset_id, assets[a].byte_size, 0)
ForgedUploadToken(a) ==
    LET t == MintedUploadToken(a)
    IN [t EXCEPT ![Len(t)] = hmac_hexdigest("attacker", SubSeq(t, 1, Len(t) - 1))]

(***************************************************************************)
(* app/api/ingest.py: publish_dataset and append_dataset.                  *)
(* Validate phase, then the commit phase statement by statement in the     *)
(* request's own transaction, then session.commit() (app/db/session.py).   *)
(***************************************************************************)
Refs(c) == extract_asset_ids(DocType(c), DocPayload(c))

ErrorItem(path, i, j, error_type) == [path |-> path, i |-> i, j |-> j, error_type |-> error_type]

AnnotationErrors(i, c) ==
    LET anns == DocAnnotations(c)
    IN { ErrorItem("items[i].annotations[j]", i, j,
                   IF validate_annotation(anns[j].schema, anns[j].data) = "value_error"
                   THEN "invalid_annotation"
                   ELSE validate_annotation(anns[j].schema, anns[j].data)) :
           j \in {k \in 1..Len(anns) : validate_annotation(anns[k].schema, anns[k].data) # "ok"} }

(* The errors the first loop appends for manifest item i. *)
ItemErrors(i, c, asset_ids_in_dataset) ==
    IF DocType(c) \notin get_supported_item_types
    THEN {ErrorItem("items[i]", i, 0, "unsupported_type")}
    ELSE IF validate_payload(DocType(c), DocPayload(c)) # "ok"
    THEN {ErrorItem("items[i].payload", i, 0, validate_payload(DocType(c), DocPayload(c)))}
    ELSE (IF Refs(c).ids \ asset_ids_in_dataset # {}
          THEN {ErrorItem("items[i]", i, 0, "asset_not_uploaded")} ELSE {})
         \cup AnnotationErrors(i, c)

(* storage.head_object(key) of the local backend: content_length, or       *)
(* found = FALSE for FileNotFoundError; content_type is always None.       *)
head_object(asset_id) == [found |-> storage[asset_id] # 0, content_length |-> storage[asset_id]]

(* Variant: an object missing from storage is not reported. *)
IntegrityErrors_size_only(aid, asset_ids_in_dataset) ==
    IF aid \notin asset_ids_in_dataset THEN {}
    ELSE IF head_object(aid).found /\ head_object(aid).content_length # assets[aid].byte_size
    THEN {ErrorItem("assets", aid, 0, "asset_size_mismatch")}
    ELSE {}

(* The errors the integrity loop appends for a referenced asset. *)
IntegrityErrors(aid, asset_ids_in_dataset) ==
    IF aid \notin asset_ids_in_dataset THEN {}
    ELSE IF ~head_object(aid).found
    THEN {ErrorItem("assets", aid, 0, "asset_missing_in_storage")}
    ELSE IF head_object(aid).content_length # assets[aid].byte_size
    THEN {ErrorItem("assets", aid, 0, "asset_size_mismatch")}
    ELSE {}

(* The integrity loop re-runs the validating extractor on every item. *)
ExtractRaises(manifest) == \E i \in 1..Len(manifest) : Refs(manifest[i]).raised

validation_errors(manifest, asset_ids_in_dataset) ==
    UNION {ItemErrors(i, manifest[i], asset_ids_in_dataset) : i \in 1..Len(manifest)}
    \cup UNION {IntegrityErrors(aid, asset_ids_in_dataset) :
                   aid \in UNION {Refs(manifest[i]).ids : i \in 1..Len(manifest)}}

PublishAssetIds(u, dataset_id) ==
    {a \in AssetIds : assets[a].org_id = users[u].org_id /\ assets[a].dataset_id = dataset_id}

(* Variant: append also accepts assets that are linked to an item. *)
AppendAssetIds_with_linked(u, dataset_id) ==
    {a \in AssetIds : assets[a].org_id = users[u].org_id /\ assets[a].dataset_id = dataset_id}

AppendAssetIds(u, dataset_id) ==
    {a \in AssetIds : /\ assets[a].org_id = users[u].org_id
                      /\ assets[a].dataset_id = dataset_id
                      /\ assets[a].item_id = NULL}

(* Variant: the integrity loop over the referenced assets is skipped. *)
publish_dataset_outcome_no_integrity(u, dataset_id, manifest, limited) ==
    IF require_publisher(u).status # 200 THEN require_publisher(u)
    ELSE IF ~ingest_enabled THEN HTTPException(503, "Ingestion is temporarily disabled")
    ELSE IF limited THEN HTTPException(429, "Too many requests")
    ELSE IF get_dataset_for_user(dataset_id, u).status # 200 THEN get_dataset_for_user(dataset_id, u)
    ELSE IF datasets[dataset_id].status # "draft" THEN HTTPException(409, "Dataset already published")
    ELSE IF manifest = <<>> THEN HTTPException(400, "Manifest must contain at least one item")
    ELSE IF ExtractRaises(manifest) THEN HTTPException(500, "Internal Server Error")
    ELSE IF UNION {ItemErrors(i, manifest[i], PublishAssetIds(u, dataset_id)) :
                      i \in 1..Len(manifest)} # {}
         THEN HTTPException(422, "errors")
    ELSE Found(dataset_id)

publish_dataset_outcome(u, dataset_id, manifest, limited) ==
    IF require_publisher(u).status # 200 THEN require_publisher(u)
    ELSE IF ~ingest_enabled THEN HTTPException(503, "Ingestion is temporarily disabled")
    ELSE IF limited THEN HTTPException(429, "Too many requests")
    ELSE IF get_dataset_for_user(dataset_id, u).status # 200 THEN get_dataset_for_user(dataset_id, u)
    ELSE IF datasets[dataset_id].status # "draft" THEN HTTPException(409, "Dataset already published")
    ELSE IF manifest = <<>> THEN HTTPException(400, "Manifest must contain at least one item")
    ELSE IF ExtractRaises(manifest) THEN HTTPException(500, "Internal Server Error")
    ELSE IF validation_errors(manifest, PublishAssetIds(u, dataset_id)) # {}
         THEN HTTPException(422, "errors")
    ELSE Found(dataset_id)

(* Variant: append does not look at the status of the dataset. *)
append_dataset_outcome_any_status(u, dataset_id, manifest, limited) ==
    IF require_publisher(u).status # 200 THEN require_publisher(u)
    ELSE IF ~ingest_enabled THEN HTTPException(503, "Ingestion is temporarily disabled")
    ELSE IF limited THEN HTTPException(429, "Too many requests")
    ELSE IF get_dataset_for_user(dataset_id, u).status # 200 THEN get_dataset_for_user(dataset_id, u)
    ELSE IF manifest = <<>> THEN HTTPException(400, "Manifest must contain at least one item")
    ELSE IF ExtractRaises(manifest) THEN HTTPException(500, "Internal Server Error")
    ELSE IF validation_errors(manifest, AppendAssetIds(u, dataset_id)) # {}
         THEN HTTPException(422, "errors")
    ELSE Found(dataset_id)

append_dataset_outcome(u, dataset_id, manifest, limited) ==
    IF require_publisher(u).status # 200 THEN require_publisher(u)
    ELSE IF ~ingest_enabled THEN HTTPException(503, "Ingestion is temporarily disabled")
    ELSE IF limited THEN HTTPException(429, "Too many requests")
    ELSE IF get_dataset_for_user(dataset_id, u).status # 200 THEN get_dataset_for_user(dataset_id, u)
    ELSE IF datasets[dataset_id].status # "published"
         THEN HTTPException(409, "Can only append to a published dataset")
    ELSE IF manifest = <<>> THEN HTTPException(400, "Manifest must contain at least one item")
    ELSE IF ExtractRaises(manifest) THEN HTTPException(500, "Internal Server Error")
    ELSE IF validation_errors(manifest, AppendAssetIds(u, dataset_id)) # {}
         THEN HTTPException(422, "errors")
    ELSE Found(dataset_id)

(* uuid4() for the k-th item of the request whose commit phase began at now. *)
ItemId(now, k) == now * 10 + k

MaxOf(ks) == CHOOSE k \in ks : \A j \in ks : j <= k

(* Rows matched by the k-th UPDATE assets SET item_id = ... of request q. *)
UpdateTargets(q, k) ==
    {a \in AssetIds : /\ assets[a].org_id = users[q.user].org_id
                      /\ assets[a].dataset_id = q.dataset_id
                      /\ a \in Refs(q.manifest[k]).ids}

(* Asset rows a request has updated and not yet committed (row locks). *)
RowLocks(r) ==
    IF req[r].pc # "commit" THEN {}
    ELSE UNION {UpdateTargets(req[r], k) : k \in 1..(req[r].i - 1)}

(* The next UPDATE of r waits for a row lock held by another transaction. *)
Blocked(r) ==
    /\ req[r].pc = "commit"
    /\ req[r].i <= Len(req[r].manifest)
    /\ \E r2 \in Req \ {r} : UpdateTargets(req[r], req[r].i) \cap RowLocks(r2) # {}

BeginCommitPhase(r, op, u, dataset_id, manifest) ==
    /\ clock < (IF op = "append" THEN MaxAppendClock ELSE MaxClock)
    /\ clock' = clock + 1
    /\ req' = [req EXCEPT ![r] = [pc |-> "commit", op |-> op, user |-> u,
                                  dataset_id |-> dataset_id, manifest |-> manifest,
                                  i |-> 1, now |-> clock + 1]]

(* db.add(item); flush; db.add(annotations); UPDATE assets ... for one item *)
CommitItem(r) ==
    /\ req[r].pc = "commit"
    /\ req[r].i <= Len(req[r].manifest)
    /\ ~Blocked(r)
    /\ req' = [req EXCEPT ![r].i = @ + 1]
    /\ UNCHANGED <<users, datasets, assets, items, annotations, dataset_access,
                   pending_share, storage, clock, ingest_enabled, probe, publish_ok>>

TxItems(q) ==
    {[id |-> ItemId(q.now, k), org_id |-> users[q.user].org_id,
      dataset_id |-> q.dataset_id, doc |-> q.manifest[k]] : k \in 1..Len(q.manifest)}

TxAnnotations(q) ==
    UNION {{[item_id |-> ItemId(q.now, k), org_id |-> users[q.user].org_id,
             dataset_id |-> q.dataset_id, idx |-> j,
             schema |-> DocAnnotations(q.manifest[k])[j].schema] :
               j \in 1..Len(DocAnnotations(q.manifest[k]))} : k \in 1..Len(q.manifest)}

(* Variant: one UPDATE links every referenced asset to the first item. *)
TxAssets_first_item(q) ==
    [a \in AssetIds |->
        LET ks == {k \in 1..Len(q.manifest) : a \in UpdateTargets(q, k)}
        IN IF ks = {} THEN assets[a]
           ELSE [assets[a] EXCEPT !.item_id = ItemId(q.now, 1)]]

(* Each UPDATE overwrites item_id on the rows it matches; the last one wins. *)
TxAssets(q) ==
    [a \in AssetIds |->
        LET ks == {k \in 1..Len(q.manifest) : a \in UpdateTargets(q, k)}
        IN IF ks = {} THEN assets[a]
           ELSE [assets[a] EXCEPT !.item_id = ItemId(q.now, MaxOf(ks))]]

(* dataset.status = "published"; dataset.published_at = now; flush *)
PublishedRow(row, now) == [row EXCEPT !.status = "published", !.published_at = now]

publish_dataset_validate(r, u, dataset_id, manifest, limited) ==
    LET out == publish_dataset_outcome(u, dataset_id, manifest, limited)
    IN /\ req[r].pc = "idle"
       /\ IF out.status = 200
          THEN BeginCommitPhase(r, "publish", u, dataset_id, manifest)
          ELSE UNCHANGED <<req, clock>>
       /\ UNCHANGED <<users, datasets, assets, items, annotations, dataset_access,
                      pending_share, storage, ingest_enabled, probe, publish_ok>>

publish_dataset_item(r) == req[r].op = "publish" /\ CommitItem(r)

(* Variant: the commit of a publish writes the rows and leaves the dataset *)
(* a draft.                                                                *)
publish_dataset_commit_keeps_draft(r) ==
    LET q == req[r]
    IN /\ q.pc = "commit" /\ q.op = "publish"
       /\ q.i = Len(q.manifest) + 1
       /\ items' = items \cup TxItems(q)
       /\ annotations' = annotations \cup TxAnnotations(q)
       /\ assets' = TxAssets(q)
       /\ publish_ok' = [publish_ok EXCEPT ![q.dataset_id] = @ + 1]
       /\ req' = [req EXCEPT ![r] = IdleReq]
       /\ UNCHANGED <<users, datasets, dataset_access, pending_share, storage, clock,
                      ingest_enabled, probe>>

publish_dataset_commit(r) ==
    LET q == req[r]
    IN /\ q.pc = "commit" /\ q.op = "publish"
       /\ q.i = Len(q.manifest) + 1
       /\ items' = items \cup TxItems(q)
       /\ annotations' = annotations \cup TxAnnotations(q)
       /\ assets' = TxAssets(q)
       /\ datasets' = [datasets EXCEPT ![q.dataset_id] = PublishedRow(@, q.now)]
       /\ publish_ok' = [publish_ok EXCEPT ![q.dataset_id] = @ + 1]
       /\ req' = [req EXCEPT ![r] = IdleReq]
       /\ UNCHANGED <<users, dataset_access, pending_share, storage, clock, ingest_enabled, probe>>

append_dataset_validate(r, u, dataset_id, manifest, limited) ==
    LET out == append_dataset_outcome(u, dataset_id, manifest, limited)
    IN /\ req[r].pc = "idle"
       /\ IF out.status = 200
          THEN BeginCommitPhase(r, "append", u, dataset_id, manifest)
          ELSE UNCHANGED <<req, clock>>
       /\ UNCHANGED <<users, datasets, assets, items, annotations, dataset_access,
                      pending_share, storage, ingest_enabled, probe, publish_ok>>

append_dataset_item(r) == req[r].op = "append" /\ CommitItem(r)

(* Variant: an append reopens the dataset as a draft. *)
append_dataset_commit_reopens(r) ==
    LET q == req[r]
    IN /\ q.pc = "commit" /\ q.op = "append"
       /\ q.i = Len(q.manifest) + 1
       /\ items' = items \cup TxItems(q)
       /\ annotations' = annotations \cup TxAnnotations(q)
       /\ assets' = TxAssets(q)
       /\ datasets' = [datasets EXCEPT ![q.dataset_id].status = "draft"]
       /\ req' = [req EXCEPT ![r] = IdleReq]
       /\ UNCHANGED <<users, dataset_access, pending_share, storage, clock,
                      ingest_enabled, publish_ok, probe>>

append_dataset_commit(r) ==
    LET q == req[r]
    IN /\ q.pc = "commit" /\ q.op = "append"
       /\ q.i = Len(q.manifest) + 1
       /\ items' = items \cup TxItems(q)
       /\ annotations' = annotations \cup TxAnnotations(q)
       /\ assets' = TxAssets(q)
       /\ req' = [req EXCEPT ![r] = IdleReq]
       /\ UNCHANGED <<users, datasets, dataset_access, pending_share, storage, clock,
                      ingest_enabled, probe, publish_ok>>

(* Two transactions each wait for a row the other has locked: the database *)
(* aborts one, the handler raises and get_db rolls the session back.       *)
deadlock_rollback(r) ==
    /\ Blocked(r)
    /\ \E r2 \in Req \ {r} : Blocked(r2)
    /\ req' = [req EXCEPT ![r] = IdleReq]
    /\ UNCHANGED <<users, datasets, assets, items, annotations, dataset_access,
                   pending_share, storage, clock, ingest_enabled, probe, publish_ok>>

(* Variant: every statement of the commit phase is committed on its own,   *)
(* so a failure leaves what was flushed before it.                         *)
commit_phase_failure_keeps_flushed(r) ==
    LET q == req[r]
        done == [q EXCEPT !.manifest = SubSeq(q.manifest, 1, q.i - 1)]
    IN /\ q.pc = "commit"
       /\ items' = items \cup TxItems(done)
       /\ annotations' = annotations \cup TxAnnotations(done)
       /\ assets' = TxAssets(done)
       /\ req' = [req EXCEPT ![r] = IdleReq]
       /\ UNCHANGED <<users, datasets, dataset_access, pending_share, storage, clock,
                      ingest_enabled, probe, publish_ok>>

(* A statement of the commit phase fails (the database refuses it, the     *)
(* connection is lost): the handler raises and get_db rolls the session    *)
(* back, whatever the request has flushed so far.                          *)
commit_phase_failure(r) ==
    /\ req[r].pc = "commit"
    /\ req' = [req EXCEPT ![r] = IdleReq]
    /\ UNCHANGED <<users, datasets, assets, items, annotations, dataset_access,
                   pending_share, storage, clock, ingest_enabled, probe, publish_ok>>

(* storage.head_object raises something other than FileNotFoundError while *)
(* the integrity loop of the validate phase asks for a referenced asset:   *)
(* the handler raises (500) and get_db rolls back a session that has       *)
(* written nothing.                                                        *)
validate_storage_error(op, u, dataset_id, manifest) ==
    LET out == IF op = "publish" THEN publish_dataset_outcome(u, dataset_id, manifest, FALSE)
               ELSE append_dataset_outcome(u, dataset_id, manifest, FALSE)
        ids == IF op = "publish" THEN PublishAssetIds(u, dataset_id)
               ELSE AppendAssetIds(u, dataset_id)
    IN /\ \E i \in 1..Len(manifest) : Refs(manifest[i]).ids \cap ids # {}
       /\ out.status \in {200, 422}
       /\ UNCHANGED vars

(***************************************************************************)
(* app/api/assets.py: stream_asset.  The GET carries a session, a token    *)
(* and reads the stored object; it writes nothing.                         *)
(***************************************************************************)
(* Variant: the token is verified before the asset gate is asked. *)
stream_asset_outcome_token_first(u, asset_id, token, now) ==
    IF get_current_user(u).status # 200 THEN get_current_user(u)
    ELSE IF ~verify_asset_stream_token(token, asset_id, users[u].org_id, now)
         THEN HTTPException(403, "Invalid or expired token")
    ELSE IF get_asset_for_user(asset_id, u).status # 200 THEN get_asset_for_user(asset_id, u)
    ELSE IF ~head_object(asset_id).found THEN HTTPException(404, "File not found")
    ELSE Found(asset_id)

stream_asset_outcome(u, asset_id, token, now) ==
    IF get_current_user(u).status # 200 THEN get_current_user(u)
    ELSE IF get_asset_for_user(asset_id, u).status # 200 THEN get_asset_for_user(asset_id, u)
    ELSE IF ~verify_asset_stream_token(token, asset_id, users[u].org_id, now)
         THEN HTTPException(403, "Invalid or expired token")
    ELSE IF ~head_object(asset_id).found THEN HTTPException(404, "File not found")
    ELSE Found(asset_id)

stream_asset(u, asset_id, token, now) ==
    /\ stream_asset_outcome(u, asset_id, token, now).status \in {200, 401, 403, 404}
    /\ UNCHANGED <<users, datasets, assets, items, annotations, dataset_access, pending_share,
                   storage, req, clock, ingest_enabled, probe, publish_ok>>

(* Tokens a client can present to the stream endpoint: those get_signed_url *)
(* mints at time 0 for an asset id and an organization, one of them signed *)
(* with a key that is not the server's, and a string without a colon.      *)
MintedStreamToken(asset_id, org_id) == create_asset_stream_token(asset_id, org_id, 0)
ForgedStreamToken(asset_id, org_id) ==
    LET t == MintedStreamToken(asset_id, org_id)
    IN [t EXCEPT ![Len(t)] = hmac_hexdigest("attacker", SubSeq(t, 1, Len(t) - 1))]

(***************************************************************************)
(* app/api/datasets.py: list_datasets, as the set of ids of the rows the   *)
(* query selects.                                                          *)
(***************************************************************************)
(* Variant: a viewer lists every dataset of the organization. *)
list_datasets_org_wide(u) ==
    {d \in DatasetIds : datasets[d].org_id = users[u].org_id}

list_datasets(u) ==
    IF users[u].role \in {"admin", "publisher"}
    THEN {d \in DatasetIds : datasets[d].org_id = users[u].org_id}
    ELSE {d \in DatasetIds :
             /\ \E da \in dataset_access : da.dataset_id = d /\ da.user_id = u
             /\ datasets[d].org_id = users[u].org_id}

(***************************************************************************)
(* app/api/assets.py: the signed-URL cache and get_signed_url.  The cache  *)
(* is a dict in insertion order, here a sequence of entries with distinct  *)
(* (asset_id, user_id) keys; a URL is the stream token it carries.  A      *)
(* lookup or an insertion answers with the cache it leaves behind.         *)
(***************************************************************************)
_CACHE_BUFFER_SECONDS == 60
NoUrl == <<>>

CacheIndex(cache, asset_id, user_id) ==
    IF \E i \in DOMAIN cache : cache[i].asset_id = asset_id /\ cache[i].user_id = user_id
    THEN CHOOSE i \in DOMAIN cache : cache[i].asset_id = asset_id /\ cache[i].user_id = user_id
    ELSE 0

CachePop(cache, i) == SubSeq(cache, 1, i - 1) \o SubSeq(cache, i + 1, Len(cache))

(* Variant: an entry is returned until the moment it expires. *)
_get_cached_signed_url_until_expiry(cache, cache_ttl, asset_id, user_id, now) ==
    LET i == CacheIndex(cache, asset_id, user_id)
    IN IF cache_ttl <= 0 THEN [url |-> NoUrl, cache |-> cache]
       ELSE IF i = 0 THEN [url |-> NoUrl, cache |-> cache]
       ELSE IF cache[i].expires_at - now < 0
            THEN [url |-> NoUrl, cache |-> CachePop(cache, i)]
       ELSE [url |-> cache[i].url, cache |-> cache]

_get_cached_signed_url(cache, cache_ttl, asset_id, user_id, now) ==
    LET i == CacheIndex(cache, asset_id, user_id)
    IN IF cache_ttl <= 0 THEN [url |-> NoUrl, cache |-> cache]
       ELSE IF i = 0 THEN [url |-> NoUrl, cache |-> cache]
       ELSE IF cache[i].expires_at - now < _CACHE_BUFFER_SECONDS
            THEN [url |-> NoUrl, cache |-> CachePop(cache, i)]
       ELSE [url |-> cache[i].url, cache |-> cache]

RECURSIVE CacheEvict(_, _)
CacheEvict(cache, max_size) ==
    IF Len(cache) > max_size THEN CacheEvict(Tail(cache), max_size) ELSE cache

_set_cached_signed_url(cache, cache_ttl, max_size, asset_id, user_id, url, expires_at) ==
    LET i == CacheIndex(cache, asset_id, user_id)
        entry == [asset_id |-> asset_id, user_id |-> user_id, url |-> url,
                  expires_at |-> expires_at]
    IN IF cache_ttl <= 0 THEN cache
       ELSE CacheEvict(IF i = 0 THEN Append(cache, entry) ELSE [cache EXCEPT ![i] = entry],
                       max_size)

create_presigned_get(asset_id, org_id, now) == create_asset_stream_token(asset_id, org_id, now)

(* Variant: the cache is consulted before the asset gate. *)
get_signed_url_outcome_cache_first(u, asset_id, cache, cache_ttl, now) ==
    IF get_current_user(u).status # 200 THEN get_current_user(u)
    ELSE IF _get_cached_signed_url(cache, cache_ttl, asset_id, u, now).url # NoUrl
         THEN Found(asset_id)
    ELSE IF get_asset_for_user(asset_id, u).status # 200 THEN get_asset_for_user(asset_id, u)
    ELSE Found(asset_id)

get_signed_url_outcome(u, asset_id, cache, cache_ttl, now) ==
    IF get_current_user(u).status # 200 THEN get_current_user(u)
    ELSE IF get_asset_for_user(asset_id, u).status # 200 THEN get_asset_for_user(asset_id, u)
    ELSE Found(asset_id)

(* The URL of a 200 response and the cache the request leaves behind. *)
get_signed_url(u, asset_id, cache, cache_ttl, max_size, now) ==
    LET cached == _get_cached_signed_url(cache, cache_ttl, asset_id, u, now)
        url == create_presigned_get(asset_id, users[u].org_id, now)
    IN IF get_signed_url_outcome(u, asset_id, cache, cache_ttl, now).status # 200
       THEN [url |-> NoUrl, cache |-> cache]
       ELSE IF cached.url # NoUrl THEN cached
       ELSE [url |-> url,
             cache |-> _set_cached_signed_url(cached.cache, cache_ttl, max_size, asset_id, u,
                                              url, now + signed_url_ttl_seconds)]

(***************************************************************************)
(* app/api/admin.py: dataset shares; app/api/auth.py: signup               *)
(***************************************************************************)
add_dataset_share_outcome(u, dataset_id) ==
    IF require_admin_or_publisher(u).status # 200 THEN require_admin_or_publisher(u)
    ELSE IF get_dataset_for_user(dataset_id, u).status # 200 THEN get_dataset_for_user(dataset_id, u)
    ELSE [status |-> 201, detail |-> "", id |-> dataset_id]

(* select(UserModel).where(email, org_id == user.org_id, is_active) *)
ShareTargetUsers(u, email) ==
    {t \in UserIds : /\ users[t].email = email
                     /\ users[t].org_id = users[u].org_id
                     /\ users[t].is_active}

(* access_role=body.access_role if body.access_role in ("viewer", "editor") *)
(* else "viewer"                                                           *)
AccessRole(access_role) ==
    IF access_role \in {"viewer", "editor"} THEN access_role ELSE "viewer"

(* Variant: the row is inserted without looking for an existing one. *)
add_dataset_share_no_lookup(u, dataset_id, email, access_role) ==
    LET out == add_dataset_share_outcome(u, dataset_id)
        targets == ShareTargetUsers(u, email)
    IN /\ IF out.status # 201 THEN UNCHANGED <<dataset_access, pending_share>>
          ELSE IF targets # {}
          THEN LET target_user == CHOOSE t \in targets : TRUE
               IN /\ dataset_access' = dataset_access \cup
                        {[org_id |-> users[u].org_id, dataset_id |-> dataset_id,
                          user_id |-> target_user, access_role |-> AccessRole(access_role)]}
                  /\ UNCHANGED pending_share
          ELSE /\ pending_share' = pending_share \cup
                     {[org_id |-> users[u].org_id, dataset_id |-> dataset_id,
                       email |-> email, access_role |-> AccessRole(access_role)]}
               /\ UNCHANGED dataset_access
       /\ UNCHANGED <<users, datasets, assets, items, annotations, storage, req, clock,
                      ingest_enabled, probe, publish_ok>>

add_dataset_share(u, dataset_id, email, access_role) ==
    LET out == add_dataset_share_outcome(u, dataset_id)
        targets == ShareTargetUsers(u, email)
    IN /\ IF out.status # 201 THEN UNCHANGED <<dataset_access, pending_share>>
          ELSE IF targets # {}
          THEN LET target_user == CHOOSE t \in targets : TRUE
               IN /\ dataset_access' =
                        IF \E da \in dataset_access :
                               da.dataset_id = dataset_id /\ da.user_id = target_user
                        THEN dataset_access
                        ELSE dataset_access \cup
                                {[org_id |-> users[u].org_id, dataset_id |-> dataset_id,
                                  user_id |-> target_user,
                                  access_role |-> AccessRole(access_role)]}
                  /\ UNCHANGED pending_share
          ELSE /\ pending_share' =
                     IF \E p \in pending_share : p.dataset_id = dataset_id /\ p.email = email
                     THEN pending_share
                     ELSE pending_share \cup
                             {[org_id |-> users[u].org_id, dataset_id |-> dataset_id,
                               email |-> email, access_role |-> AccessRole(access_role)]}
               /\ UNCHANGED dataset_access
       /\ UNCHANGED <<users, datasets, assets, items, annotations, storage, req, clock,
                      ingest_enabled, probe, publish_ok>>

remove_dataset_share_outcome(u, dataset_id, user_id) ==
    IF require_admin_or_publisher(u).status # 200 THEN require_admin_or_publisher(u)
    ELSE IF get_dataset_for_user(dataset_id, u).status # 200 THEN get_dataset_for_user(dataset_id, u)
    ELSE IF ~(\E da \in dataset_access : /\ da.dataset_id = dataset_id
                                         /\ da.user_id = user_id
                                         /\ da.org_id = users[u].org_id)
         THEN HTTPException(404, "Not found")
    ELSE [status |-> 204, detail |-> "", id |-> dataset_id]

remove_dataset_share(u, dataset_id, user_id) ==
    LET out == remove_dataset_share_outcome(u, dataset_id, user_id)
    IN /\ dataset_access' =
             IF out.status # 204 THEN dataset_access
             ELSE {da \in dataset_access : ~(/\ da.dataset_id = dataset_id
                                             /\ da.user_id = user_id
                                             /\ da.org_id = users[u].org_id)}
       /\ UNCHANGED <<users, datasets, assets, items, annotations, pending_share, storage,
                      req, clock, ingest_enabled, probe, publish_ok>>

(* The org of the first pending share for the email (the query has no      *)
(* ORDER BY, so any of them), else the first organization by id.           *)
resolve_signup_org(email) ==
    IF \E p \in pending_share : p.email = email
    THEN {p.org_id : p \in {q \in pending_share : q.email = email}}
    ELSE {CHOOSE o \in Orgs : \A o2 \in Orgs : o <= o2}

signup_outcome(email) ==
    IF \E t \in UserIds : users[t].email = email
    THEN HTTPException(409, "Email already registered")
    ELSE Found(Len(users) + 1)

(* Variant: every pending share of the address is converted, whatever its  *)
(* organization.                                                           *)
signup_converts_any_org(email, org_id) ==
    LET out == signup_outcome(email)
        user_id == Len(users) + 1
        pending_rows == {p \in pending_share : p.email = email}
    IN /\ IF out.status # 200 THEN UNCHANGED <<users, dataset_access, pending_share>>
          ELSE /\ Len(users) < MaxUsers
               /\ org_id \in resolve_signup_org(email)
               /\ users' = Append(users, [org_id |-> org_id, role |-> "viewer",
                                          email |-> email, is_active |-> TRUE])
               /\ dataset_access' = dataset_access \cup
                      {[org_id |-> p.org_id, dataset_id |-> p.dataset_id,
                        user_id |-> user_id, access_role |-> p.access_role] :
                          p \in pending_rows}
               /\ pending_share' = pending_share \ pending_rows
       /\ UNCHANGED <<datasets, assets, items, annotations, storage, req, clock,
                      ingest_enabled, probe, publish_ok>>

signup(email, org_id) ==
    LET out == signup_outcome(email)
        user_id == Len(users) + 1
        pending_rows == {p \in pending_share : p.org_id = org_id /\ p.email = email}
    IN /\ IF out.status # 200 THEN UNCHANGED <<users, dataset_access, pending_share>>
          ELSE /\ Len(users) < MaxUsers
               /\ org_id \in resolve_signup_org(email)
               /\ users' = Append(users, [org_id |-> org_id, role |-> "viewer",
                                          email |-> email, is_active |-> TRUE])
               /\ dataset_access' = dataset_access \cup
                      {[org_id |-> p.org_id, dataset_id |-> p.dataset_id,
                        user_id |-> user_id, access_role |-> p.access_role] :
                          p \in pending_rows}
               /\ pending_share' = pending_share \ pending_rows
       /\ UNCHANGED <<datasets, assets, items, annotations, storage, req, clock,
                      ingest_enabled, probe, publish_ok>>

(***************************************************************************)
(* Requests a client may send.                                             *)
(***************************************************************************)
ValidShapedCodes ==
    {Code("audio", a, 0, IF a = 1 THEN "captions" ELSE "none") : a \in 1..MaxAssets}
BadCodes ==
    {Code("pair", 1, GhostId, "none"), Code("audio_extra", 1, 0, "none"),
     Code("unsupported", 0, 0, "none"), Code("audio", 1, 0, "bad_schema")}

RECURSIVE SeqsUpTo(_, _)
SeqsUpTo(set, n) ==
    IF n = 0 THEN {<<>>}
    ELSE LET shorter == SeqsUpTo(set, n - 1)
         IN shorter \cup {Append(s, e) : s \in shorter, e \in set}

(* Manifests of well-formed items, and those with one item replaced by an  *)
(* ill-formed one.                                                         *)
Manifests ==
    LET valid == SeqsUpTo(ValidShapedCodes, MaxManifestLen)
    IN valid \cup UNION {{[m EXCEPT ![k] = c] : k \in 1..Len(m), c \in BadCodes} : m \in valid}

(* The request body matters only to a request that reaches the manifest. *)
BodiesFor(reaches) == IF reaches THEN Manifests ELSE {<<>>}

(* The file list matters only to a request that reaches the loop over it. *)
FilesFor(reaches) == IF reaches THEN Batches ELSE {<<>>}

(* The rate limiter matters only to a request that reaches it. *)
LimitedFor(reaches) == IF reaches THEN BOOLEAN ELSE {FALSE}

(* Sessions: none (0) or one of the users. *)
Sessions == 0..Len(users)

(* Dataset ids in a path: the rows there are and one uuid that is no row. *)
DatasetPaths == DatasetIds \cup {GhostId}

(* What a client varies about one PUT: the token, the body length relative *)
(* to the declared size, and whether the token has expired by now.         *)
UploadProbes(a) ==
    IF a \notin AssetIds THEN {[token |-> <<Junk>>, dn |-> 0, late |-> 0]}
    ELSE {[token |-> MintedUploadToken(a), dn |-> dn, late |-> 0] : dn \in {0, 1}}
         \cup {[token |-> MintedUploadToken(a), dn |-> 0, late |-> 1]}
         \cup {[token |-> MintedUploadToken(b), dn |-> 0, late |-> 0] : b \in AssetIds \ {a}}
         \cup {[token |-> ForgedUploadToken(a), dn |-> 0, late |-> 0],
               [token |-> <<Junk>>, dn |-> 0, late |-> 0]}

(* The token and the body matter only to a PUT that gets past the role     *)
(* check and the asset gate of a session.                                  *)
ProbesFor(reaches, a) ==
    IF reaches THEN UploadProbes(a) ELSE {[token |-> <<Junk>>, dn |-> 0, late |-> 0]}

(* The address and the user id matter only to a request that reaches them. *)
EmailsFor(reaches, emails) == IF reaches THEN emails ELSE {CHOOSE e \in emails : TRUE}
UsersFor(reaches) == IF reaches THEN UserIds ELSE {CHOOSE t \in UserIds : TRUE}

(* Addresses a dataset is shared with: the seeded viewer's and one that is *)
(* not registered yet; the address that signs up.                          *)
ShareEmails == {2, 4}
SignupEmails == {2, 4}

(* Sessions hold no state: a new request takes the lowest free one. *)
FreeReq(r) == req[r].pc = "idle" /\ \A r2 \in Req : r2 < r => req[r2].pc # "idle"

(* What a client varies about one GET of a stream: the token and whether   *)
(* it has expired by now.                                                  *)
StreamProbes(a) ==
    {[token |-> MintedStreamToken(b, o), late |-> late] :
        b \in AssetIds \cup {a}, o \in Orgs, late \in {0, 1}}
    \cup {[token |-> ForgedStreamToken(a, o), late |-> 0] : o \in Orgs}
    \cup {[token |-> <<Junk>>, late |-> 0]}

StreamAsset ==
    \E u \in Sessions, a \in AssetIds \cup {GhostId} :
        \E p \in (IF stream_asset_outcome(u, a, <<Junk>>, 0).status = 403
                  THEN StreamProbes(a) ELSE {[token |-> <<Junk>>, late |-> 0]}) :
            stream_asset(u, a, p.token, signed_url_ttl_seconds + p.late)

CreateDraft ==
    \E u \in Sessions : \E limited \in LimitedFor(require_publisher(u).status = 200) :
        create_draft_dataset(u, limited)

BatchUploadUrls ==
    \E u \in Sessions, d \in DatasetPaths :
        \E limited \in LimitedFor(require_publisher(u).status = 200) :
            \E fs \in FilesFor(batch_upload_urls_outcome(u, d, <<>>, limited).status = 200) :
                batch_upload_urls(u, d, fs, limited)

UploadAsset ==
    \E u \in Sessions, a \in AssetIds \cup {GhostId} :
        \E p \in ProbesFor(upload_asset_outcome(u, a, <<Junk>>, 0, 0).detail
                               \notin {"Publisher or admin role required", NOT_FOUND}, a) :
            upload_asset(u, a, p.token, (IF a \in AssetIds THEN assets[a].byte_size ELSE 1) + p.dn,
                         upload_token_ttl_seconds + p.late)

(* A PUT with the minted token and a body of the declared length, with or  *)
(* without a session, taken in its two steps.                              *)
UploadLoad ==
    \E r \in Req, u \in Sessions, a \in AssetIds :
        /\ FreeReq(r)
        /\ upload_asset_load(r, u, a, MintedUploadToken(a), assets[a].byte_size,
                             upload_token_ttl_seconds)

UploadWrite == \E r \in Req : upload_asset_write(r)

UploadAbandon == \E r \in Req : upload_asset_abandon(r)

PublishValidate ==
    \E r \in Req, u \in Sessions, d \in DatasetPaths :
        /\ FreeReq(r)
        /\ \E limited \in LimitedFor(require_publisher(u).status = 200) :
              \E m \in BodiesFor(publish_dataset_outcome(u, d, <<>>, limited).status = 400) :
                  publish_dataset_validate(r, u, d, m, limited)

PublishItem == \E r \in Req : publish_dataset_item(r)

PublishCommit == \E r \in Req : publish_dataset_commit(r)

AppendValidate ==
    \E r \in Req, u \in Sessions, d \in DatasetPaths :
        /\ FreeReq(r)
        /\ \E limited \in LimitedFor(require_publisher(u).status = 200) :
              \E m \in BodiesFor(append_dataset_outcome(u, d, <<>>, limited).status = 400) :
                  append_dataset_validate(r, u, d, m, limited)

AppendItem == \E r \in Req : append_dataset_item(r)

AppendCommit == \E r \in Req : append_dataset_commit(r)

DeadlockRollback == \E r \in Req : deadlock_rollback(r)

CommitPhaseFailure == \E r \in Req : commit_phase_failure(r)

ValidateStorageError ==
    \E op \in {"publish", "append"}, u \in UserIds, d \in DatasetIds :
        \E m \in BodiesFor((IF op = "publish" THEN publish_dataset_outcome(u, d, <<>>, FALSE)
                            ELSE append_dataset_outcome(u, d, <<>>, FALSE)).status = 400) :
            validate_storage_error(op, u, d, m)

AddShare ==
    \E u \in Sessions, d \in DatasetPaths :
        \E email \in EmailsFor(add_dataset_share_outcome(u, d).status = 201, ShareEmails) :
            add_dataset_share(u, d, email, "viewer")

(* The same request with the access_role of the body varied. *)
AccessRoles == {"viewer", "editor", "owner"}
AddShareWithRole ==
    \E u \in Sessions, d \in DatasetPaths :
        \E email \in EmailsFor(add_dataset_share_outcome(u, d).status = 201, ShareEmails) :
            \E access_role \in (IF add_dataset_share_outcome(u, d).status = 201
                                THEN AccessRoles ELSE {"viewer"}) :
                add_dataset_share(u, d, email, access_role)

RemoveShare ==
    \E u \in Sessions, d \in DatasetPaths :
        \E t \in UsersFor(add_dataset_share_outcome(u, d).status = 201) :
            remove_dataset_share(u, d, t)

Signup == \E email \in SignupEmails, o \in Orgs : signup(email, o)

(***************************************************************************)
(* Capability tokens in a client's hands.  The server mints a token for a  *)
(* tuple at time at; the client may alter the string before presenting it  *)
(* (it has no server key), present it for another tuple, or present it     *)
(* later.  verify is the server's answer.                                  *)
(***************************************************************************)
TokenTimes ==
    {0, 1, upload_token_ttl_seconds - 1, upload_token_ttl_seconds,
     upload_token_ttl_seconds + 1, upload_token_ttl_seconds + 2}

Tuple(asset_id, org_id, dataset_id, byte_size) ==
    [asset_id |-> asset_id, org_id |-> org_id, dataset_id |-> dataset_id, byte_size |-> byte_size]

Mint(family, tuple, at) ==
    IF family = "upload"
    THEN create_upload_token(tuple.asset_id, tuple.org_id, tuple.dataset_id, tuple.byte_size, at)
    ELSE create_asset_stream_token(tuple.asset_id, tuple.org_id, at)

Verify(endpoint, token, tuple, now) ==
    IF endpoint = "upload"
    THEN verify_upload_token(token, tuple.asset_id, tuple.org_id, tuple.dataset_id,
                             tuple.byte_size, now)
    ELSE verify_asset_stream_token(token, tuple.asset_id, tuple.org_id, now)

InitToken ==
    /\ EmptyDb
    /\ ingest_enabled = TRUE
    /\ \E family \in {"upload", "stream"}, a \in {1, 2}, at \in {0, 1} :
          probe = [family |-> family, endpoint |-> family,
                   minted |-> Tuple(a, 1, 1, 2), at |-> at,
                   token |-> Mint(family, Tuple(a, 1, 1, 2), at),
                   presented |-> Tuple(a, 1, 1, 2), now |-> at, result |-> "none"]

(* Texts a client can write into a component of the string. *)
ClientTexts ==
    {StrUuid(1), StrUuid(2), StrInt(2), StrInt(3), Txt("num", 2, FALSE),
     StrInt(2 * upload_token_ttl_seconds), Junk}

(* The client overwrites one component and keeps the signature. *)
AlterField ==
    /\ probe.token = Mint(probe.family, probe.minted, probe.at)
    /\ \E k \in 1..(Len(probe.token) - 1), x \in ClientTexts :
          /\ x # probe.token[k]
          /\ probe' = [probe EXCEPT !.token[k] = x, !.result = "none"]
    /\ UNCHANGED <<db, storage, req, clock, ingest_enabled, publish_ok>>

(* The client overwrites one component and signs with a key of its own. *)
ForgeSignature ==
    /\ probe.token = Mint(probe.family, probe.minted, probe.at)
    /\ \E k \in 1..(Len(probe.token) - 1), x \in ClientTexts :
          LET message == [SubSeq(probe.token, 1, Len(probe.token) - 1) EXCEPT ![k] = x]
          IN probe' = [probe EXCEPT !.token = Append(message, hmac_hexdigest("attacker", message)),
                                    !.result = "none"]
    /\ UNCHANGED <<db, storage, req, clock, ingest_enabled, publish_ok>>

(* The client drops a component, or the signature. *)
DropField ==
    /\ probe.token = Mint(probe.family, probe.minted, probe.at)
    /\ \E k \in 1..Len(probe.token) :
          probe' = [probe EXCEPT !.token = SubSeq(probe.token, 1, k - 1) \o
                                           SubSeq(probe.token, k + 1, Len(probe.token)),
                                 !.result = "none"]
    /\ UNCHANGED <<db, storage, req, clock, ingest_enabled, publish_ok>>

(* The request names another asset, organization, dataset or size than the *)
(* token was minted for, or goes to the other endpoint.                    *)
PresentElsewhere ==
    /\ probe.presented = probe.minted
    /\ probe.endpoint = probe.family
    /\ \/ \E t \in {Tuple(3 - probe.minted.asset_id, 1, 1, 2), Tuple(probe.minted.asset_id, 2, 1, 2),
                    Tuple(probe.minted.asset_id, 1, 2, 2), Tuple(probe.minted.asset_id, 1, 1, 3)} :
             probe' = [probe EXCEPT !.presented = t, !.result = "none"]
       \/ probe' = [probe EXCEPT !.endpoint = IF probe.family = "upload" THEN "stream" ELSE "upload",
                                 !.result = "none"]
    /\ UNCHANGED <<db, storage, req, clock, ingest_enabled, publish_ok>>

(* time.time() advances. *)
Tick ==
    /\ \E t \in TokenTimes : t > probe.now /\ probe' = [probe EXCEPT !.now = t, !.result = "none"]
    /\ UNCHANGED <<db, storage, req, clock, ingest_enabled, publish_ok>>

(* The server verifies the presented token. *)
VerifyToken ==
    /\ probe.result = "none"
    /\ probe' = [probe EXCEPT !.result =
                    IF Verify(probe.endpoint, probe.token, probe.presented, probe.now)
                    THEN "accepted" ELSE "rejected"]
    /\ UNCHANGED <<db, storage, req, clock, ingest_enabled, publish_ok>>

NextToken ==
    \/ AlterField
    \/ ForgeSignature
    \/ DropField
    \/ PresentElsewhere
    \/ Tick
    \/ VerifyToken

SpecToken == InitToken /\ [][NextToken]_vars

(* The ingest pipeline with two requests in flight. *)
NextIngest ==
    \/ CreateDraft
    \/ BatchUploadUrls
    \/ UploadAsset
    \/ PublishValidate
    \/ PublishItem
    \/ PublishCommit
    \/ AppendValidate
    \/ AppendItem
    \/ AppendCommit
    \/ DeadlockRollback

SpecIngest == Init /\ [][NextIngest]_vars

(* No request is between its validate phase and its commit. *)
Quiet == \A r \in Req : req[r].pc = "idle"

(* Every operation, one request at a time. *)
NextSequential ==
    \/ Quiet /\ CreateDraft
    \/ Quiet /\ BatchUploadUrls
    \/ Quiet /\ UploadAsset
    \/ Quiet /\ PublishValidate
    \/ PublishItem
    \/ PublishCommit
    \/ Quiet /\ AppendValidate
    \/ AppendItem
    \/ AppendCommit
    \/ Quiet /\ AddShare
    \/ Quiet /\ RemoveShare
    \/ Quiet /\ Signup

SpecSequential == Init /\ [][NextSequential]_vars

(* Drafts, uploads, shares and signups, and the readers of the stored      *)
(* objects.                                                                *)
NextStream ==
    \/ CreateDraft
    \/ BatchUploadUrls
    \/ UploadAsset
    \/ AddShare
    \/ RemoveShare
    \/ Signup
    \/ StreamAsset

SpecStream == Init /\ [][NextStream]_vars

(* Drafts, their shares with any access role, and signups. *)
NextShares ==
    \/ CreateDraft
    \/ AddShareWithRole
    \/ RemoveShare
    \/ Signup

SpecShares == Init /\ [][NextShares]_vars

(* Ingestion with requests that fail in their commit phase or on the       *)
(* storage backend; drafts, asset slots and uploads come while no publish  *)
(* or append is in flight.                                                 *)
NextAbort ==
    \/ Quiet /\ CreateDraft
    \/ Quiet /\ BatchUploadUrls
    \/ Quiet /\ UploadAsset
    \/ PublishValidate
    \/ PublishItem
    \/ PublishCommit
    \/ AppendValidate
    \/ AppendItem
    \/ AppendCommit
    \/ DeadlockRollback
    \/ CommitPhaseFailure
    \/ ValidateStorageError

SpecAbort == Init /\ [][NextAbort]_vars

(* Uploads taken in two steps beside publish and append; drafts and asset  *)
(* slots are created while no request is in flight.                        *)
NextUploadRace ==
    \/ Quiet /\ CreateDraft
    \/ Quiet /\ BatchUploadUrls
    \/ UploadLoad
    \/ UploadWrite
    \/ PublishValidate
    \/ PublishItem
    \/ PublishCommit
    \/ AppendValidate
    \/ AppendItem
    \/ AppendCommit

SpecUploadRace == Init /\ [][NextUploadRace]_vars

(* Uploads in two steps that a client may abandon between the two, with    *)
(* the publishes and appends that link the assets; drafts and asset slots  *)
(* are created while no request is in flight.                              *)
NextUploadAbandon ==
    \/ Quiet /\ CreateDraft
    \/ Quiet /\ BatchUploadUrls
    \/ UploadLoad
    \/ UploadWrite
    \/ UploadAbandon
    \/ PublishValidate
    \/ PublishItem
    \/ PublishCommit
    \/ AppendValidate
    \/ AppendItem
    \/ AppendCommit

SpecUploadAbandon == Init /\ [][NextUploadAbandon]_vars

(***************************************************************************)
(* The signed-URL cache of the server process (app/api/assets.py), filled  *)
(* by get_signed_url requests for the assets of drafts, shared or not.     *)
(***************************************************************************)
_signed_url_cache == probe.cache

(* datetime.now() readings: an entry minted at 0 expires at 300 and is     *)
(* returned up to 240.                                                     *)
CacheTimes == {0, signed_url_ttl_seconds - _CACHE_BUFFER_SECONDS,
               signed_url_ttl_seconds - _CACHE_BUFFER_SECONDS + 1}

(* settings.signed_url_cache_ttl_seconds *)
CacheTtlSettings == {0, 60}

InitCache ==
    /\ EmptyDb
    /\ ingest_enabled = TRUE
    /\ \E cache_ttl \in CacheTtlSettings :
          probe = [family |-> "cache", cache_ttl |-> cache_ttl, cache |-> <<>>, now |-> 0]

GetSignedUrl ==
    /\ \E u \in Sessions, a \in AssetIds \cup {GhostId} :
          probe' = [probe EXCEPT !.cache = get_signed_url(u, a, probe.cache, probe.cache_ttl,
                                                          MaxCacheSize, probe.now).cache]
    /\ UNCHANGED <<db, storage, req, clock, ingest_enabled, publish_ok>>

(* datetime.now() advances. *)
CacheTick ==
    /\ \E t \in CacheTimes : t > probe.now /\ probe' = [probe EXCEPT !.now = t]
    /\ UNCHANGED <<db, storage, req, clock, ingest_enabled, publish_ok>>

NextCache ==
    \/ CreateDraft
    \/ BatchUploadUrls
    \/ AddShare
    \/ GetSignedUrl
    \/ CacheTick

SpecCache == InitCache /\ [][NextCache]_vars

(***************************************************************************)
(* app/core/rate_limit.py: _buckets maps an identifier to the list of the  *)
(* time.monotonic() readings of its admitted calls.  _check_limit answers  *)
(* whether the call is limited, with the buckets it leaves behind.         *)
(***************************************************************************)
_window == 60

RECURSIVE Younger(_, _)
Younger(bucket, now) ==
    IF bucket = <<>> THEN <<>>
    ELSE IF now - Head(bucket) < _window THEN <<Head(bucket)>> \o Younger(Tail(bucket), now)
    ELSE Younger(Tail(bucket), now)

(* Variant: the call is recorded before it is counted. *)
_check_limit_records_rejected(buckets, identifier, limit_per_minute, now) ==
    LET bucket == Append(Younger(buckets[identifier], now), now)
    IN IF Len(bucket) > limit_per_minute
       THEN [limited |-> TRUE, buckets |-> [buckets EXCEPT ![identifier] = bucket]]
       ELSE [limited |-> FALSE, buckets |-> [buckets EXCEPT ![identifier] = bucket]]

_check_limit(buckets, identifier, limit_per_minute, now) ==
    LET bucket == Younger(buckets[identifier], now)
    IN IF Len(bucket) >= limit_per_minute
       THEN [limited |-> TRUE, buckets |-> [buckets EXCEPT ![identifier] = bucket]]
       ELSE [limited |-> FALSE,
             buckets |-> [buckets EXCEPT ![identifier] = Append(bucket, now)]]

(* The limiter of one server process under calls for two identifiers with  *)
(* two limits (login and ingest share _buckets); log is the history of the *)
(* calls made, which the program does not keep.                            *)
Identifiers == {"u1", "u2"}
RateLimits == {1, 2}
RateTimes == {0, 1, 59, 60, 61}
MaxRateCalls == 4

_buckets == probe.buckets

InitRate ==
    /\ EmptyDb
    /\ ingest_enabled = TRUE
    /\ probe = [family |-> "rate", buckets |-> [id \in Identifiers |-> <<>>], now |-> 0,
                log |-> <<>>]

CheckLimit ==
    /\ Len(probe.log) < MaxRateCalls
    /\ \E identifier \in Identifiers, limit_per_minute \in RateLimits :
          LET out == _check_limit(probe.buckets, identifier, limit_per_minute, probe.now)
          IN probe' = [probe EXCEPT
                          !.buckets = out.buckets,
                          !.log = Append(@, [identifier |-> identifier,
                                             limit_per_minute |-> limit_per_minute,
                                             now |-> probe.now, limited |-> out.limited])]
    /\ UNCHANGED <<db, storage, req, clock, ingest_enabled, publish_ok>>

(* time.monotonic() advances. *)
RateTick ==
    /\ \E t \in RateTimes : t > probe.now /\ probe' = [probe EXCEPT !.now = t]
    /\ UNCHANGED <<db, storage, req, clock, ingest_enabled, publish_ok>>

NextRate ==
    \/ CheckLimit
    \/ RateTick

SpecRate == InitRate /\ [][NextRate]_vars

(***************************************************************************)
(* sdk/dataset_uploader/client.py: DatasetClient._put_file_with_retry, one *)
(* call with the default max_retries.  pc is the position in the method;   *)
(* log is the history of the outcomes of the PUTs made, which the method   *)
(* does not keep.                                                          *)
(***************************************************************************)
max_retries == 5

(* What one session.put + raise_for_status can end in: success, an         *)
(* httpx.HTTPError (a status error, a connection error, a timeout) or an   *)
(* exception that is no HTTPError.                                         *)
HTTPError == {"HTTPStatusError 500", "HTTPStatusError 409", "ConnectError", "ReadTimeout"}
PutOutcomes == {"ok", "InvalidURL"} \cup HTTPError
NoError == "None"

InitRetry ==
    /\ EmptyDb
    /\ ingest_enabled = TRUE
    /\ probe = [family |-> "sdk", pc |-> "read", attempt |-> 0, last_err |-> NoError,
                raised |-> NoError, log |-> <<>>]

(* body = path.read_bytes(); ValueError when the file no longer has the     *)
(* declared size.                                                          *)
_put_file_with_retry_read ==
    /\ probe.pc = "read"
    /\ \E size_changed \in BOOLEAN :
          probe' = IF size_changed
                   THEN [probe EXCEPT !.pc = "raised", !.raised = "ValueError"]
                   ELSE [probe EXCEPT !.pc = "put"]
    /\ UNCHANGED <<db, storage, req, clock, ingest_enabled, publish_ok>>

(* Variant: the except clause retries without counting the attempt. *)
_put_file_with_retry_except_uncounted(p, e) ==
    [p EXCEPT !.pc = "sleep", !.attempt = @ - 1, !.last_err = e]

(* except httpx.HTTPError as e: the last attempt raises, another sleeps. *)
_put_file_with_retry_except(p, e) ==
    IF p.attempt = max_retries - 1
    THEN [p EXCEPT !.pc = "raised", !.raised = e, !.last_err = e]
    ELSE [p EXCEPT !.pc = "sleep", !.last_err = e]

(* One pass through the try block of the loop body. *)
_put_file_with_retry_put ==
    /\ probe.pc = "put"
    /\ \E outcome \in PutOutcomes :
          LET p == [probe EXCEPT !.log = Append(@, outcome)]
          IN probe' = IF outcome = "ok" THEN [p EXCEPT !.pc = "returned"]
                      ELSE IF outcome \in HTTPError THEN _put_file_with_retry_except(p, outcome)
                      ELSE [p EXCEPT !.pc = "raised", !.raised = outcome]
    /\ UNCHANGED <<db, storage, req, clock, ingest_enabled, publish_ok>>

(* time.sleep(backoff) returns and the for loop takes its next value. *)
_put_file_with_retry_sleep ==
    /\ probe.pc = "sleep"
    /\ probe' = IF probe.attempt + 1 < max_retries
                THEN [probe EXCEPT !.pc = "put", !.attempt = @ + 1]
                ELSE [probe EXCEPT !.pc = "raised", !.raised = probe.last_err]
    /\ UNCHANGED <<db, storage, req, clock, ingest_enabled, publish_ok>>

NextRetry ==
    \/ _put_file_with_retry_read
    \/ _put_file_with_retry_put
    \/ _put_file_with_retry_sleep

(* Every step of the method ends: the read, a PUT under the session's      *)
(* timeout, a sleep of bounded length.                                     *)
SpecRetry == InitRetry /\ [][NextRetry]_vars /\ WF_vars(NextRetry)

Next ==
    \/ NextIngest
    \/ AddShare
    \/ RemoveShare
    \/ Signup
    \/ StreamAsset

Spec == Init /\ [][Next]_vars

(***************************************************************************)
(* Properties of the ingestion pipeline.                                   *)
(***************************************************************************)
(* The asset ids the first query of the handler of request q selects. *)
AssetIdsInDataset(q) ==
    IF q.op = "publish" THEN PublishAssetIds(q.user, q.dataset_id)
    ELSE AppendAssetIds(q.user, q.dataset_id)

(* Request r leaves its validate phase and enters the commit phase. *)
EntersCommitPhase(r) == req[r].pc = "idle" /\ req'[r].pc = "commit"

(* Request r commits its transaction. *)
Commits(r) == req[r].pc = "commit" /\ req'[r].pc = "idle" /\ items' # items

(* Rows ingestion has written keep their content. *)
IngestRowsUnchanged ==
    /\ items' = items
    /\ annotations' = annotations
    /\ \A a \in AssetIds : assets'[a].item_id = assets[a].item_id
    /\ \A d \in DatasetIds : datasets'[d] = datasets[d]

(* C1: publish_dataset and append_dataset write nothing when the validate  *)
(* phase finds an error.  A request enters the commit phase only with a    *)
(* manifest for which neither loop of the validate phase reports an error, *)
(* and Item rows, Annotation rows, Asset.item_id and the dataset's status  *)
(* and published_at change only in a step that commits such a request.     *)
C1_NoWriteOnValidationError ==
    [][ /\ \A r \in Req :
              EntersCommitPhase(r) =>
                  /\ ~ExtractRaises(req'[r].manifest)
                  /\ validation_errors(req'[r].manifest, AssetIdsInDataset(req'[r])) = {}
        /\ (~IngestRowsUnchanged) => \E r \in Req : Commits(r) ]_vars

(* A draft whose first item alone would publish, and a manifest of that    *)
(* item followed by an invalid one, which is answered 422.                 *)
C1_Witness ==
    \E u \in UserIds, d \in DatasetIds, m \in Manifests :
        /\ Len(m) = 2
        /\ publish_dataset_outcome(u, d, <<m[1]>>, FALSE).status = 200
        /\ publish_dataset_outcome(u, d, m, FALSE).status = 422
        /\ items = {}

(* C2: of two concurrent publish_dataset calls on the same draft at most   *)
(* one returns success: no dataset has two successful publish responses.   *)
C2_AtMostOnePublishSucceeds == \A d \in DatasetIds : publish_ok[d] <= 1

(* Two publish requests on one draft are past the status check together. *)
C2_Witness ==
    /\ \A r \in Req : req[r].pc = "commit" /\ req[r].op = "publish"
    /\ req[1].dataset_id = req[2].dataset_id

(* The item_id of asset a as the session of request r sees it: its own     *)
(* UPDATEs so far over the committed row.                                  *)
SessionItemId(r, a) ==
    LET q == req[r]
        ks == IF q.pc = "commit"
              THEN {k \in 1..(q.i - 1) : a \in UpdateTargets(q, k)} ELSE {}
    IN IF ks = {} THEN assets[a].item_id ELSE ItemId(q.now, MaxOf(ks))

(* C3: an asset's item_id is assigned once: where a session sees a         *)
(* non-null item_id on an asset, it sees the same item_id after every step. *)
C3_ItemIdAssignedOnce ==
    [][ \A r \in Req, a \in AssetIds :
            SessionItemId(r, a) # NULL => SessionItemId(r, a)' = SessionItemId(r, a) ]_vars

(* C4: a published dataset stays published: no step changes the status of *)
(* a dataset whose status is published.                                    *)
C4_PublishedStaysPublished ==
    [][ \A d \in DatasetIds :
            datasets[d].status = "published" => datasets'[d].status = "published" ]_vars

(* A published dataset to which an append has committed, shared with a     *)
(* viewer, after a signup.                                                 *)
C4_Witness ==
    \E d \in DatasetIds :
        /\ datasets[d].status = "published"
        /\ \E it \in items : it.dataset_id = d /\ it.id > ItemId(datasets[d].published_at, MaxManifestLen)
        /\ \E da \in dataset_access : da.dataset_id = d
        /\ Len(users) > Len(SeedUsers)

(* C5: published_at is immutable once stamped: no step changes a non-null  *)
(* published_at.                                                           *)
C5_PublishedAtImmutable ==
    [][ \A d \in DatasetIds :
            datasets[d].published_at # NULL =>
                datasets'[d].published_at = datasets[d].published_at ]_vars

(* A publish request still in its commit phase on a dataset that another   *)
(* request has published meanwhile.                                        *)
C5_Witness ==
    \E r \in Req :
        /\ req[r].pc = "commit" /\ req[r].op = "publish"
        /\ datasets[req[r].dataset_id].published_at # NULL

(***************************************************************************)
(* Properties of the access-control gate.                                  *)
(***************************************************************************)
(* Ids a request can name: those of the rows there are and one more. *)
DatasetProbes == DatasetIds \cup {GhostId}
ItemProbes == ItemIds \cup {GhostId}
AssetProbes == AssetIds \cup {GhostId}

ItemRow(item_id) == CHOOSE it \in items : it.id = item_id

HasGrant(dataset_id, u) ==
    \E da \in dataset_access : da.dataset_id = dataset_id /\ da.user_id = u

(* The three ways a dataset is out of a user's reach. *)
DatasetOutOfReach(dataset_id, u) ==
    \/ dataset_id \notin DatasetIds
    \/ datasets[dataset_id].org_id # users[u].org_id
    \/ users[u].role = "viewer" /\ ~HasGrant(dataset_id, u)

TheNotFound == [status |-> 404, detail |-> "Not found", id |-> 0]

(* C6: for a dataset, item or asset that does not exist, belongs to        *)
(* another organization, or belongs to a dataset not shared with the       *)
(* viewer, the three gates return one and the same 404 "Not found".        *)
C6_UniformNotFound ==
    \A u \in UserIds :
        /\ \A d \in DatasetProbes :
              DatasetOutOfReach(d, u) => get_dataset_for_user(d, u) = TheNotFound
        /\ \A i \in ItemProbes :
              (i \notin ItemIds \/ DatasetOutOfReach(ItemRow(i).dataset_id, u))
                  => get_item_for_user(i, u) = TheNotFound
        /\ \A a \in AssetProbes :
              (a \notin AssetIds \/ DatasetOutOfReach(assets[a].dataset_id, u))
                  => get_asset_for_user(a, u) = TheNotFound

(* A viewer for whom all three cases exist at once: an item of another     *)
(* organization and an item of an unshared dataset of its own.             *)
C6_Witness ==
    \E u \in UserIds, i1, i2 \in ItemIds :
        /\ users[u].role = "viewer"
        /\ ItemRow(i1).org_id # users[u].org_id
        /\ ItemRow(i2).org_id = users[u].org_id
        /\ ~HasGrant(ItemRow(i2).dataset_id, u)
        /\ get_item_for_user(i1, u) = get_item_for_user(GhostId, u)
        /\ get_item_for_user(i2, u) = get_item_for_user(GhostId, u)

(* C7: get_dataset_for_user authorizes exactly when the dataset is in the  *)
(* user's organization and the user is admin or publisher or holds a       *)
(* DatasetAccess row for (dataset_id, user.id).                            *)
C7_DatasetGateExact ==
    \A u \in UserIds, d \in DatasetProbes :
        get_dataset_for_user(d, u).status = 200
            <=> /\ d \in DatasetIds
                /\ datasets[d].org_id = users[u].org_id
                /\ users[u].role \in {"admin", "publisher"} \/ HasGrant(d, u)

(* A viewer opens one dataset of its organization that was shared with it  *)
(* and is refused another that was not.                                    *)
C7_Witness ==
    \E u \in UserIds, d1, d2 \in DatasetIds :
        /\ users[u].role = "viewer"
        /\ datasets[d1].org_id = users[u].org_id /\ datasets[d2].org_id = users[u].org_id
        /\ HasGrant(d1, u) /\ get_dataset_for_user(d1, u).status = 200
        /\ ~HasGrant(d2, u) /\ get_dataset_for_user(d2, u).status = 404

(* C8: an item or asset gate succeeds exactly when the row exists in the   *)
(* user's organization and the dataset gate succeeds for the row's         *)
(* dataset.                                                                *)
C8_MediatedByDataset ==
    \A u \in UserIds :
        /\ \A i \in ItemProbes :
              get_item_for_user(i, u).status = 200
                  <=> /\ i \in ItemIds
                      /\ ItemRow(i).org_id = users[u].org_id
                      /\ get_dataset_for_user(ItemRow(i).dataset_id, u).status = 200
        /\ \A a \in AssetProbes :
              get_asset_for_user(a, u).status = 200
                  <=> /\ a \in AssetIds
                      /\ assets[a].org_id = users[u].org_id
                      /\ get_dataset_for_user(assets[a].dataset_id, u).status = 200

(* An item of the viewer's organization that the viewer cannot read while  *)
(* a publisher of the organization can, and one the viewer can read.       *)
C8_Witness ==
    \E u, v \in UserIds, i1, i2 \in ItemIds :
        /\ users[u].role = "viewer" /\ users[v].role = "publisher"
        /\ ItemRow(i1).org_id = users[u].org_id
        /\ get_item_for_user(i1, u).status = 404
        /\ get_item_for_user(i1, v).status = 200
        /\ get_item_for_user(i2, u).status = 200

(***************************************************************************)
(* Properties of the capability tokens.                                    *)
(***************************************************************************)
(* The string presented is the one the server minted, character for        *)
(* character.                                                              *)
Unaltered == probe.token = Mint(probe.family, probe.minted, probe.at)

(* C9: verify_upload_token accepts only an unaltered upload token,         *)
(* presented for the asset, organization, dataset and byte size it was     *)
(* minted for, at a time not after its expiry.                             *)
C9_UploadTokenBinding ==
    (probe.endpoint = "upload" /\ probe.result = "accepted")
        => /\ probe.family = "upload"
           /\ Unaltered
           /\ probe.presented = probe.minted
           /\ probe.now <= probe.at + upload_token_ttl_seconds

(* An upload token accepted in the last second of its life. *)
C9_Witness ==
    /\ probe.endpoint = "upload" /\ probe.family = "upload"
    /\ Unaltered /\ probe.presented = probe.minted
    /\ probe.result = "accepted"
    /\ probe.now = probe.at + upload_token_ttl_seconds

(* C10: verify_asset_stream_token accepts a download token exactly when it *)
(* is unaltered (its signature is the server's), the requested asset and   *)
(* organization are those it was minted for, and now - issueEpoch <= ttl.  *)
C10_StreamTokenExact ==
    (probe.endpoint = "stream" /\ probe.result # "none")
        => (probe.result = "accepted"
               <=> /\ probe.family = "stream"
                   /\ Unaltered
                   /\ probe.presented.asset_id = probe.minted.asset_id
                   /\ probe.presented.org_id = probe.minted.org_id
                   /\ probe.now - probe.at <= signed_url_ttl_seconds)

(* A download token accepted at age ttl. *)
C10_Witness ==
    /\ probe.endpoint = "stream" /\ probe.family = "stream"
    /\ probe.result = "accepted"
    /\ probe.now - probe.at = signed_url_ttl_seconds

(***************************************************************************)
(* Properties of uploads and of the manifest's asset references.           *)
(***************************************************************************)
(* The request of user u on dataset d gets as far as reading the manifest. *)
PublishReachesManifest(u, d) == publish_dataset_outcome(u, d, <<>>, FALSE).status = 400
AppendReachesManifest(u, d) == append_dataset_outcome(u, d, <<>>, FALSE).status = 400

(* Asset ids the items of a manifest reference. *)
ReferencedAssetIds(m) == UNION {Refs(m[i]).ids : i \in 1..Len(m)}

(* The stored object of asset a is there and has the declared size. *)
StoredIntact(a) == storage[a] # 0 /\ storage[a] = assets[a].byte_size

(* The error list holds an integrity error for asset a. *)
HasIntegrityError(errors, a) ==
    \E e \in errors : /\ e.path = "assets" /\ e.i = a
                      /\ e.error_type \in {"asset_missing_in_storage", "asset_size_mismatch"}

DeclaredSize(a) == assets[a].byte_size
Unlinked(a) == assets[a].item_id = NULL
DatasetOpen(a) ==
    /\ assets[a].dataset_id \in DatasetIds
    /\ datasets[assets[a].dataset_id].status \in {"draft", "published"}

(* A PUT without a session, or with the session of an admin or publisher   *)
(* who passes the asset gate.                                              *)
UploadCaller(u, a) ==
    \/ get_current_user(u).status # 200
    \/ users[u].role \in {"admin", "publisher"} /\ get_asset_for_user(a, u).status = 200

(* Tokens, body lengths and request times of the PUTs considered. *)
UploadTokensFor(a) == {p.token : p \in UploadProbes(a)}
UploadLengths(a) == {0, DeclaredSize(a) - 1, DeclaredSize(a), DeclaredSize(a) + 1}
UploadTimes == {0, upload_token_ttl_seconds, upload_token_ttl_seconds + 1}

TokenVerifies(t, a, now) ==
    verify_upload_token(t, a, assets[a].org_id, assets[a].dataset_id, assets[a].byte_size, now)

(* C12: a body of any length other than the declared byte_size is never    *)
(* accepted, is answered 422 when the same request with the declared       *)
(* length would be accepted, and no step stores an object of another size; *)
(* a body of exactly byte_size with the minted, unexpired token for an     *)
(* unlinked asset of a draft or published dataset is accepted.             *)
C12_ExactLength ==
    /\ [](\A u \in Sessions, a \in AssetIds :
             \A t \in UploadTokensFor(a), now \in UploadTimes :
                 /\ \A n \in UploadLengths(a) \ {DeclaredSize(a)} :
                        /\ upload_asset_outcome(u, a, t, n, now).status # 200
                        /\ upload_asset_outcome(u, a, t, DeclaredSize(a), now).status = 200
                              => upload_asset_outcome(u, a, t, n, now).status = 422
                 /\ (/\ UploadCaller(u, a) /\ t = MintedUploadToken(a)
                     /\ now <= upload_token_ttl_seconds
                     /\ Unlinked(a) /\ DatasetOpen(a))
                        => upload_asset_outcome(u, a, t, DeclaredSize(a), now) = Found(a))
    /\ [][\A a \in AssetIds : storage'[a] # storage[a] => storage'[a] = DeclaredSize(a)]_vars

(* An unlinked asset whose object was stored, for which one byte more is   *)
(* answered 422.                                                           *)
C12_Witness ==
    \E a \in AssetIds :
        /\ Unlinked(a) /\ storage[a] = DeclaredSize(a)
        /\ upload_asset_outcome(0, a, MintedUploadToken(a), DeclaredSize(a) + 1,
                                upload_token_ttl_seconds).detail = "Size mismatch"
        /\ upload_asset_outcome(0, a, MintedUploadToken(a), DeclaredSize(a),
                                upload_token_ttl_seconds).status = 200

NotOfDataset(a, u, d) ==
    \/ a \notin AssetIds
    \/ assets[a].org_id # users[u].org_id
    \/ assets[a].dataset_id # d

NotUploadedError(i) == ErrorItem("items[i]", i, 0, "asset_not_uploaded")

C16_UploadProbeUniform ==
    \A a \in AssetIds : \A t \in UploadTokensFor(a), now \in UploadTimes :
        ~TokenVerifies(t, a, now) =>
            upload_asset_outcome(0, a, t, DeclaredSize(a), now)
                = upload_asset_outcome(0, GhostId, t, DeclaredSize(a), now)

(* An asset row for which a PUT without a session and with a string that   *)
(* is no token is answered 401, while the same PUT for an id that is no    *)
(* row is answered 404.                                                    *)
C16_Witness ==
    \E a \in AssetIds :
        /\ upload_asset_outcome(0, a, <<Junk>>, DeclaredSize(a), 0).status = 401
        /\ upload_asset_outcome(0, GhostId, <<Junk>>, DeclaredSize(a), 0).status = 404

(***************************************************************************)
(* Properties of the role gate on the mutating endpoints.                  *)
(***************************************************************************)
(* Every row that names a dataset, and every request in its commit phase,  *)
(* carries the organization of that dataset.                               *)
RowsOfDatasetOrg ==
    /\ \A a \in AssetIds : assets[a].org_id = datasets[assets[a].dataset_id].org_id
    /\ \A it \in items : it.org_id = datasets[it.dataset_id].org_id
    /\ \A da \in dataset_access : da.org_id = datasets[da.dataset_id].org_id
    /\ \A p \in pending_share : p.org_id = datasets[p.dataset_id].org_id
    /\ \A r \in Req : req[r].pc = "commit" =>
           users[req[r].user].org_id = datasets[req[r].dataset_id].org_id

(* C17: allocate asset slots, publish, append, add share and remove share  *)
(* answer an admin or publisher of another organization than the           *)
(* dataset's never with success and never with 403, and with the gate's    *)
(* 404 whenever the request is not turned away by the rate limiter or the  *)
(* ingestion switch; no row of a dataset carries another organization.     *)
C17_OtherOrgPublisherNotFound ==
    /\ RowsOfDatasetOrg
    /\ \A u \in UserIds, d \in DatasetIds :
           (users[u].role \in {"admin", "publisher"} /\ datasets[d].org_id # users[u].org_id)
               => /\ \A limited \in BOOLEAN :
                       /\ \A files \in Batches :
                              LET out == batch_upload_urls_outcome(u, d, files, limited)
                              IN /\ out.status \notin {200, 403}
                                 /\ ~limited => out = TheNotFound
                       /\ \A m \in Manifests :
                              LET pub == publish_dataset_outcome(u, d, m, limited)
                                  app == append_dataset_outcome(u, d, m, limited)
                              IN /\ pub.status \notin {200, 403}
                                 /\ app.status \notin {200, 403}
                                 /\ (~limited /\ ingest_enabled)
                                       => pub = TheNotFound /\ app = TheNotFound
                  /\ add_dataset_share_outcome(u, d) = TheNotFound
                  /\ \A t \in UserIds : remove_dataset_share_outcome(u, d, t) = TheNotFound

(* A draft that its own publisher can publish and share, which the admin   *)
(* of another organization, naming it, is told does not exist.             *)
C17_Witness ==
    \E u, v \in UserIds, d \in DatasetIds, m \in Manifests :
        /\ users[u].role = "admin" /\ datasets[d].org_id # users[u].org_id
        /\ publish_dataset_outcome(v, d, m, FALSE).status = 200
        /\ publish_dataset_outcome(u, d, m, FALSE) = TheNotFound
        /\ add_dataset_share_outcome(v, d).status = 201
        /\ add_dataset_share_outcome(u, d) = TheNotFound
        /\ \E d2 \in DatasetIds : datasets[d2].org_id = users[u].org_id

(* C18: on the mutating endpoints the resource gate comes before the role  *)
(* gate: a caller naming a dataset, or an asset of a dataset, that the     *)
(* gate would refuse (another organization, unshared, no such row) is      *)
(* never answered 403, whatever the caller's role.                         *)
C18_ResourceGateFirst ==
    \A u \in UserIds :
        /\ \A d \in DatasetProbes :
               get_dataset_for_user(d, u).status # 200 =>
                   /\ batch_upload_urls_outcome(u, d, <<GoodSpec>>, FALSE).status # 403
                   /\ publish_dataset_outcome(u, d, <<>>, FALSE).status # 403
                   /\ append_dataset_outcome(u, d, <<>>, FALSE).status # 403
                   /\ add_dataset_share_outcome(u, d).status # 403
                   /\ \A t \in UserIds : remove_dataset_share_outcome(u, d, t).status # 403
        /\ \A a \in AssetProbes :
               get_asset_for_user(a, u).status # 200 =>
                   upload_asset_outcome(u, a, <<Junk>>, 1, 0).status # 403

(* A viewer names a dataset of another organization and is answered 403    *)
(* by add share and by publish, where the gate alone answers 404.          *)
C18_Witness ==
    \E u \in UserIds, d \in DatasetIds :
        /\ users[u].role = "viewer" /\ datasets[d].org_id # users[u].org_id
        /\ get_dataset_for_user(d, u) = TheNotFound
        /\ add_dataset_share_outcome(u, d).status = 403
        /\ publish_dataset_outcome(u, d, <<>>, FALSE).status = 403

(* C19: a viewer who calls create draft, add share or remove share is      *)
(* answered 403 by the role gate, for every dataset and user id named and  *)
(* whether or not the dataset was shared with the viewer.                  *)
C19_ViewerForbidden ==
    \A u \in UserIds :
        users[u].role = "viewer" =>
            /\ \A limited \in BOOLEAN :
                   create_draft_dataset_outcome(u, limited)
                       = HTTPException(403, "Publisher or admin role required")
            /\ \A d \in DatasetProbes :
                   /\ add_dataset_share_outcome(u, d)
                         = HTTPException(403, "Admin or publisher role required")
                   /\ \A t \in UserIds :
                          remove_dataset_share_outcome(u, d, t)
                              = HTTPException(403, "Admin or publisher role required")

(* A viewer who holds a grant on a dataset, and so passes its gate, is     *)
(* refused when sharing it further and when removing the own grant.        *)
C19_Witness ==
    \E u \in UserIds, d \in DatasetIds :
        /\ users[u].role = "viewer" /\ HasGrant(d, u)
        /\ get_dataset_for_user(d, u).status = 200
        /\ add_dataset_share_outcome(u, d).status = 403
        /\ remove_dataset_share_outcome(u, d, u).status = 403
        /\ create_draft_dataset_outcome(u, FALSE).status = 403

(***************************************************************************)
(* Properties of the stream endpoint.                                      *)
(***************************************************************************)
StreamTimes == {0, signed_url_ttl_seconds, signed_url_ttl_seconds + 1}
StreamTokensFor(a) == {p.token : p \in StreamProbes(a)}

(* The token is the one minted for this asset and the caller's             *)
(* organization, and has not expired.                                      *)
StreamTokenGood(t, a, u, now) ==
    t = MintedStreamToken(a, users[u].org_id) /\ now <= signed_url_ttl_seconds

(* C20: stream_asset answers the gate's 404 whenever the asset gate fails, *)
(* whatever token is presented, and answers 403 exactly when the gate      *)
(* passes and the token is not the unexpired one minted for this asset     *)
(* and the caller's organization.                                          *)
C20_StreamGateBeforeToken ==
    \A u \in UserIds, a \in AssetProbes :
        \A t \in StreamTokensFor(a), now \in StreamTimes :
            /\ get_asset_for_user(a, u).status # 200
                  => stream_asset_outcome(u, a, t, now) = TheNotFound
            /\ stream_asset_outcome(u, a, t, now).status = 403
                  <=> /\ get_asset_for_user(a, u).status = 200
                      /\ ~StreamTokenGood(t, a, u, now)

(* A stored asset of a dataset not shared with a viewer of its             *)
(* organization: the viewer, with the unexpired token minted for the       *)
(* asset and the organization, is answered 404; the publisher is served    *)
(* with it and answered 403 with the token of another asset.               *)
C20_Witness ==
    \E u, v \in UserIds, a, b \in AssetIds :
        /\ users[u].role = "viewer" /\ users[v].org_id = users[u].org_id
        /\ assets[a].org_id = users[u].org_id /\ a # b
        /\ stream_asset_outcome(u, a, MintedStreamToken(a, users[u].org_id),
                                signed_url_ttl_seconds) = TheNotFound
        /\ stream_asset_outcome(v, a, MintedStreamToken(a, users[v].org_id),
                                signed_url_ttl_seconds).status = 200
        /\ stream_asset_outcome(v, a, MintedStreamToken(b, users[v].org_id),
                                signed_url_ttl_seconds).status = 403

(***************************************************************************)
(* Properties of dataset shares and of signup.                             *)
(***************************************************************************)
(* The DatasetAccess and PendingDatasetShare rows of a dataset for an      *)
(* email address.                                                          *)
AccessRowsFor(dataset_id, email) ==
    {da \in dataset_access : da.dataset_id = dataset_id /\ users[da.user_id].email = email}
PendingRowsFor(dataset_id, email) ==
    {p \in pending_share : p.dataset_id = dataset_id /\ p.email = email}
ShareRowCount(dataset_id, email) ==
    Cardinality(AccessRowsFor(dataset_id, email)) + Cardinality(PendingRowsFor(dataset_id, email))

(* C21: add_dataset_share is idempotent: a dataset never has more than one *)
(* row, DatasetAccess or PendingDatasetShare, for an email; an accepted    *)
(* add share leaves exactly one; and where the row exists already, an      *)
(* accepted add share for that email, with whatever access_role, changes   *)
(* neither table.                                                          *)
C21_AddShareIdempotent ==
    /\ [](\A d \in DatasetIds, email \in ShareEmails : ShareRowCount(d, email) <= 1)
    /\ [][\A u \in UserIds, d \in DatasetIds, email \in ShareEmails, role \in AccessRoles :
             (add_dataset_share_outcome(u, d).status = 201
                  /\ add_dataset_share(u, d, email, role))
                 => /\ ShareRowCount(d, email)' = 1
                    /\ ShareRowCount(d, email) = 1
                          => UNCHANGED <<dataset_access, pending_share>>]_vars

(* A dataset shared with a registered user as editor and with an           *)
(* unregistered address: adding either again is accepted.                  *)
C21_Witness ==
    \E u \in UserIds, d \in DatasetIds :
        /\ add_dataset_share_outcome(u, d).status = 201
        /\ \E da \in AccessRowsFor(d, 2) : da.access_role = "editor"
        /\ PendingRowsFor(d, 4) # {}
        /\ \A email \in ShareEmails : ShareRowCount(d, email) = 1

(* The step registers a new user with this email. *)
SignsUp(email) ==
    /\ Len(users') = Len(users) + 1
    /\ users'[Len(users')].email = email

PendingFor(email) == {p \in pending_share : p.email = email}

(* C22: a signup with an email that has N PendingDatasetShare rows, in     *)
(* whatever datasets and organizations, creates exactly N DatasetAccess    *)
(* rows for the new user and leaves no PendingDatasetShare row for the     *)
(* email.                                                                  *)
C22_SignupConvertsAllPending ==
    [][\A email \in SignupEmails :
           SignsUp(email) =>
               /\ Cardinality({da \in dataset_access' : da.user_id = Len(users')})
                      = Cardinality(PendingFor(email))
               /\ PendingFor(email)' = {}]_vars

(* An unregistered address with pending shares in two organizations. *)
C22_Witness ==
    \E p1, p2 \in PendingFor(4) : p1.org_id # p2.org_id

(***************************************************************************)
(* Properties of the state checks of the ingestion endpoints.              *)
(***************************************************************************)
(* A publisher or admin who passes the gate of dataset d. *)
PublisherOf(u, d) ==
    require_publisher(u).status = 200 /\ get_dataset_for_user(d, u).status = 200

AllSpecsValid(files) ==
    \A k \in 1..Len(files) :
        validate_file_spec(files[k].kind, files[k].content_type, files[k].byte_size)

C25_PublishedRejectsBatch ==
    /\ [](\A u \in UserIds, d \in DatasetIds, files \in Batches :
             (PublisherOf(u, d) /\ datasets[d].status = "published")
                 => batch_upload_urls_outcome(u, d, files, FALSE).status = 409)
    /\ [][\A u \in UserIds, d \in DatasetIds, files \in Batches :
             (/\ Len(assets') # Len(assets)
              /\ datasets[d].status = "published"
              /\ batch_upload_urls(u, d, files, FALSE))
                 => UNCHANGED assets]_vars

(* A published dataset with a slot allocated after one of its linked       *)
(* assets and never uploaded, and its publisher asking for one more.       *)
C25_Witness ==
    \E u \in UserIds, d \in DatasetIds, a, b \in AssetIds :
        /\ datasets[d].status = "published"
        /\ assets[b].dataset_id = d /\ assets[b].item_id # NULL
        /\ b < a /\ assets[a].dataset_id = d /\ assets[a].item_id = NULL /\ storage[a] = 0
        /\ PublisherOf(u, d)
        /\ batch_upload_urls_outcome(u, d, <<GoodSpec>>, FALSE).status = 200

(* C26: a batch with an invalid file spec (unknown kind, content type      *)
(* outside the allowlist, byte_size outside 1..ceiling) is answered 422    *)
(* before any upload token is minted for the request, and no Asset row of  *)
(* the batch persists.                                                     *)
C26_InvalidSpecBeforeMint ==
    /\ [](\A u \in UserIds, d \in DatasetIds, files \in Batches :
             (PublisherOf(u, d) /\ ~AllSpecsValid(files))
                 => /\ batch_upload_urls_outcome(u, d, files, FALSE).status = 422
                    /\ batch_upload_urls_minted(files) = 0)
    /\ [][\A u \in UserIds, d \in DatasetIds, files \in Batches :
             (~AllSpecsValid(files) /\ batch_upload_urls(u, d, files, FALSE))
                 => UNCHANGED assets]_vars

(* A publisher and a dataset that takes slots: a batch whose second spec   *)
(* is invalid is answered 422 after the token of its first file is minted. *)
C26_Witness ==
    \E u \in UserIds, d \in DatasetIds, f \in BadSpecs :
        /\ PublisherOf(u, d)
        /\ batch_upload_urls_outcome(u, d, <<GoodSpec>>, FALSE).status = 200
        /\ batch_upload_urls_outcome(u, d, <<GoodSpec, f>>, FALSE).status = 422
        /\ batch_upload_urls_minted(<<GoodSpec, f>>) = 1
        /\ batch_upload_urls_minted(<<f>>) = 0

(***************************************************************************)
(* Properties of the rows of a dataset.                                    *)
(***************************************************************************)
ItemsOf(d) == {it \in items : it.dataset_id = d}
AnnotationsOf(d) == {an \in annotations : an.dataset_id = d}

(* C27: in every committed state a draft dataset has no Item row and no    *)
(* Annotation row and every asset of it has item_id null; Item rows come   *)
(* into existence only in the step that commits a publish, which leaves    *)
(* the dataset published, or in the step that commits an append to a       *)
(* dataset that is published already, and always in the dataset of the     *)
(* committing request.                                                     *)
C27_DraftHasNoItems ==
    /\ [](\A d \in DatasetIds :
             datasets[d].status = "draft" =>
                 /\ ItemsOf(d) = {}
                 /\ AnnotationsOf(d) = {}
                 /\ \A a \in AssetIds : assets[a].dataset_id = d => assets[a].item_id = NULL)
    /\ [][items' # items =>
             \E r \in Req :
                 /\ Commits(r)
                 /\ \A it \in items' \ items : it.dataset_id = req[r].dataset_id
                 /\ datasets'[req[r].dataset_id].status = "published"
                 /\ req[r].op = "append" => datasets[req[r].dataset_id].status = "published"]_vars

(* A draft with an uploaded asset beside a published dataset that holds an *)
(* item with an annotation and the asset linked to it.                     *)
C27_Witness ==
    \E d1, d2 \in DatasetIds, a1, a2 \in AssetIds :
        /\ datasets[d1].status = "draft" /\ datasets[d2].status = "published"
        /\ assets[a1].dataset_id = d1 /\ StoredIntact(a1) /\ assets[a1].item_id = NULL
        /\ assets[a2].dataset_id = d2 /\ assets[a2].item_id \in {it.id : it \in ItemsOf(d2)}
        /\ AnnotationsOf(d2) # {}

(* Request r commits an append. *)
AppendCommits(r) == Commits(r) /\ req[r].op = "append"

(* C28: a successful append with a manifest of k items adds exactly k new  *)
(* Item rows, all in the dataset, and leaves every Item row there was,     *)
(* every asset link there was, and the status and published_at of the      *)
(* dataset unchanged.                                                      *)
C28_AppendFrame ==
    [][\A r \in Req :
           AppendCommits(r) =>
               /\ Cardinality(items' \ items) = Len(req[r].manifest)
               /\ \A it \in items' \ items : it.dataset_id = req[r].dataset_id
               /\ items \subseteq items'
               /\ \A a \in AssetIds :
                     assets[a].item_id # NULL => assets'[a].item_id = assets[a].item_id
               /\ datasets'[req[r].dataset_id] = datasets[req[r].dataset_id]]_vars

(* Two appends to one published dataset, both past the validate phase with *)
(* manifests that reference the same unlinked asset.                       *)
C28_Witness ==
    \E a \in AssetIds :
        /\ \A r \in Req : /\ req[r].pc = "commit" /\ req[r].op = "append"
                          /\ a \in UNION {Refs(req[r].manifest[k]).ids :
                                             k \in 1..Len(req[r].manifest)}
        /\ req[1].dataset_id = req[2].dataset_id
        /\ assets[a].item_id = NULL

(***************************************************************************)
(* Properties of the error list of the validate phase.                     *)
(***************************************************************************)
(* Manifest item c has an unsupported type, an invalid payload, a          *)
(* reference to an asset outside asset_ids_in_dataset, or an invalid       *)
(* annotation.                                                             *)
ItemInvalid(c, asset_ids_in_dataset) ==
    \/ DocType(c) \notin get_supported_item_types
    \/ validate_payload(DocType(c), DocPayload(c)) # "ok"
    \/ Refs(c).ids \ asset_ids_in_dataset # {}
    \/ \E j \in 1..Len(DocAnnotations(c)) :
          validate_annotation(DocAnnotations(c)[j].schema, DocAnnotations(c)[j].data) # "ok"

(* The answer is 422 and its list has an error for every invalid item. *)
CompleteErrorList(out, manifest, asset_ids_in_dataset) ==
    (\E i \in 1..Len(manifest) : ItemInvalid(manifest[i], asset_ids_in_dataset))
        => /\ out.status = 422
           /\ \A i \in 1..Len(manifest) :
                 ItemInvalid(manifest[i], asset_ids_in_dataset)
                     => \E e \in validation_errors(manifest, asset_ids_in_dataset) :
                            e.i = i /\ e.path # "assets"

(* C29: a publish or an append whose manifest contains invalid items is    *)
(* answered by one 422 whose error list holds at least one structured      *)
(* error for every item with an unsupported type, an invalid payload, a    *)
(* reference to an asset not available to the dataset or an invalid        *)
(* annotation, not only for the first of them.                             *)
C29_CompleteErrorList ==
    \A u \in UserIds, d \in DatasetIds, m \in Manifests :
        (PublisherOf(u, d) /\ ingest_enabled) =>
            /\ datasets[d].status = "draft"
                  => CompleteErrorList(publish_dataset_outcome(u, d, m, FALSE), m,
                                       PublishAssetIds(u, d))
            /\ datasets[d].status = "published"
                  => CompleteErrorList(append_dataset_outcome(u, d, m, FALSE), m,
                                       AppendAssetIds(u, d))

(* A draft for which a manifest of two invalid items is answered 422 with  *)
(* an error for each, and a manifest with an item of an unsupported type   *)
(* is answered 500.                                                        *)
C29_Witness ==
    \E u \in UserIds, d \in DatasetIds, m1, m2 \in Manifests :
        /\ PublisherOf(u, d) /\ ingest_enabled /\ datasets[d].status = "draft"
        /\ Len(m1) = 2
        /\ \A i \in 1..2 : ItemInvalid(m1[i], PublishAssetIds(u, d))
        /\ publish_dataset_outcome(u, d, m1, FALSE).status = 422
        /\ \A i \in 1..2 : \E e \in validation_errors(m1, PublishAssetIds(u, d)) : e.i = i
        /\ \E i \in 1..Len(m2) : DocType(m2[i]) \notin get_supported_item_types
        /\ publish_dataset_outcome(u, d, m2, FALSE).status = 500

(***************************************************************************)
(* The tenant boundary.                                                    *)
(***************************************************************************)
(* C30: after any sequence of operations every Asset, Item, Annotation,    *)
(* DatasetAccess and PendingDatasetShare row carries the org_id of its     *)
(* dataset, and the user of every DatasetAccess row belongs to that        *)
(* organization, the rows a signup makes of pending shares included.       *)
C30_TenantBoundary ==
    /\ \A a \in AssetIds : assets[a].org_id = datasets[assets[a].dataset_id].org_id
    /\ \A it \in items : it.org_id = datasets[it.dataset_id].org_id
    /\ \A an \in annotations : an.org_id = datasets[an.dataset_id].org_id
    /\ \A p \in pending_share : p.org_id = datasets[p.dataset_id].org_id
    /\ \A da \in dataset_access :
          /\ da.org_id = datasets[da.dataset_id].org_id
          /\ users[da.user_id].org_id = da.org_id

(* A published dataset with an item, an annotation and a linked asset,     *)
(* shared with a user who signed up with a pending share of it, and a      *)
(* pending share of a dataset of the other organization.                   *)
C30_Witness ==
    \E d1, d2 \in DatasetIds, a \in AssetIds :
        /\ datasets[d1].org_id # datasets[d2].org_id
        /\ assets[a].dataset_id = d1 /\ assets[a].item_id \in {it.id : it \in ItemsOf(d1)}
        /\ AnnotationsOf(d1) # {}
        /\ \E da \in dataset_access : da.dataset_id = d1 /\ da.user_id > Len(SeedUsers)
        /\ \E p \in pending_share : p.dataset_id = d2

(***************************************************************************)
(* Properties of uploads in flight.                                        *)
(***************************************************************************)
(* The upload in flight as request r writes its file in this step. *)
UploadWrites(r) == req[r].pc = "upload" /\ req'[r].pc = "idle"

(* C31: once an asset is linked to an item its stored bytes never change:  *)
(* no upload writes the file of an asset whose item_id is not null, also   *)
(* not an upload that passed the item_id check before the link was         *)
(* committed.                                                              *)
C31_LinkedBytesFrozen ==
    [][\A r \in Req :
           UploadWrites(r) => assets[req[r].asset_id].item_id = NULL]_vars

(* An upload past its checks, still to write, of an asset that a publish   *)
(* or an append has linked to an item meanwhile.                           *)
C31_Witness ==
    \E r \in Req :
        /\ req[r].pc = "upload"
        /\ assets[req[r].asset_id].item_id # NULL
        /\ StoredIntact(req[r].asset_id)

(***************************************************************************)
(* Properties of requests that fail.                                       *)
(***************************************************************************)
(* Request r commits its whole manifest in this step. *)
CommitsWhole(r) ==
    LET q == req[r]
    IN /\ q.pc = "commit" /\ req'[r].pc = "idle"
       /\ q.i = Len(q.manifest) + 1
       /\ items' = items \cup TxItems(q)
       /\ annotations' = annotations \cup TxAnnotations(q)
       /\ datasets'[q.dataset_id].status = "published"

(* C32: a failure in the commit phase of publish or append, or a storage   *)
(* error in the validate phase, aborts the whole request: a request that   *)
(* leaves its commit phase either commits every item, annotation and link  *)
(* of its manifest together with the status, or leaves the Item and        *)
(* Annotation rows, every Asset.item_id and every dataset row as they      *)
(* were; no other step changes them.                                       *)
C32_AbortRollsBack ==
    [][ /\ (~IngestRowsUnchanged) => \E r \in Req : CommitsWhole(r)
        /\ \A r \in Req :
              (req[r].pc = "commit" /\ req'[r].pc = "idle" /\ ~CommitsWhole(r))
                  => /\ IngestRowsUnchanged
                     /\ publish_ok' = publish_ok ]_vars

(* A request halfway through the commit phase of a manifest of two items,  *)
(* after an earlier request was aborted in its commit phase: nothing is    *)
(* committed and every dataset is a draft.                                 *)
C32_Witness ==
    \E r \in Req :
        /\ req[r].pc = "commit" /\ Len(req[r].manifest) = 2 /\ req[r].i = 2
        /\ \A r2 \in Req \ {r} : req[r2].pc = "idle"
        /\ clock = 2
        /\ items = {} /\ annotations = {}
        /\ \A d \in DatasetIds : datasets[d].status = "draft"
        /\ \A a \in AssetIds : assets[a].item_id = NULL

(***************************************************************************)
(* The round trip of an upload URL.                                        *)
(***************************************************************************)
(* Times a slot is allocated at, and the times of a PUT in the life of the *)
(* token minted at time at.                                                *)
MintTimes == {0, 1}
LifeOf(at) == {at, at + 1, at + upload_token_ttl_seconds - 1, at + upload_token_ttl_seconds}

(* The URL batch_upload_urls returns for the slot of asset a at time at. *)
UploadUrl(a, at) ==
    create_presigned_put(a, assets[a].org_id, assets[a].dataset_id, assets[a].byte_size, at)

(* C33: the token in the upload URL batch_upload_urls returns for an asset *)
(* is accepted by verify_upload_token for the id, organization, dataset    *)
(* and byte_size of the asset at every time up to its expiry, and while    *)
(* the asset is unlinked a PUT without a session to that URL with a body   *)
(* of exactly byte_size bytes succeeds; every step that changes the stored *)
(* object of an asset is one that such a PUT takes.                        *)
C33_UploadUrlRoundTrip ==
    /\ [](\A a \in AssetIds, at \in MintTimes :
             \A now \in LifeOf(at) :
                 LET url == UploadUrl(a, at)
                 IN /\ url.asset_id = a
                    /\ TokenVerifies(url.token, a, now)
                    /\ Unlinked(a)
                          => upload_asset_outcome(0, url.asset_id, url.token,
                                                  DeclaredSize(a), now).status = 200)
    /\ [][\A a \in AssetIds :
             storage'[a] # storage[a] =>
                 \A at \in MintTimes : \A now \in LifeOf(at) :
                     upload_asset(0, a, UploadUrl(a, at).token, DeclaredSize(a), now)]_vars

(* An unlinked asset of a published dataset, stored with its declared      *)
(* length, whose URL is still good in the last second of its token.        *)
C33_Witness ==
    \E a \in AssetIds :
        /\ Unlinked(a) /\ StoredIntact(a)
        /\ datasets[assets[a].dataset_id].status = "published"
        /\ upload_asset_outcome(0, a, UploadUrl(a, 1).token, DeclaredSize(a),
                                1 + upload_token_ttl_seconds).status = 200
        /\ upload_asset_outcome(0, a, UploadUrl(a, 1).token, DeclaredSize(a),
                                2 + upload_token_ttl_seconds).status = 401

(***************************************************************************)
(* Revocation of a dataset share.                                          *)
(***************************************************************************)
CacheTtls == {0, 60}

(* What the signed-URL cache may hold for an asset and a user: nothing, or *)
(* the URL minted for them at time 0.                                      *)
UrlCaches(a, u) ==
    {<<>>,
     <<[asset_id |-> a, user_id |-> u,
        url |-> create_presigned_get(a, users[u].org_id, 0),
        expires_at |-> signed_url_ttl_seconds]>>}

(* Every read of dataset d, of its items and of its assets by user u is    *)
(* answered 404, whatever the cache holds and whatever token is presented. *)
DeniedAll(u, d) ==
    /\ get_dataset_for_user(d, u) = TheNotFound
    /\ \A it \in items : it.dataset_id = d => get_item_for_user(it.id, u) = TheNotFound
    /\ \A a \in AssetIds : assets[a].dataset_id = d =>
          /\ \A cache \in UrlCaches(a, u), cache_ttl \in CacheTtls :
                get_signed_url_outcome(u, a, cache, cache_ttl, 0) = TheNotFound
          /\ \A t \in StreamTokensFor(a), now \in StreamTimes :
                stream_asset_outcome(u, a, t, now) = TheNotFound

NoAccessRow(u, d) == ~(\E da \in dataset_access : da.dataset_id = d /\ da.user_id = u)

(* C34: once remove_dataset_share has deleted a viewer's DatasetAccess row *)
(* for a dataset, and for as long as the viewer has no such row, every     *)
(* request of the viewer for the dataset, its items, a signed URL of one   *)
(* of its assets (with the URL still cached) and a stream of one of its    *)
(* assets (with an unexpired token minted before) is answered 404.         *)
C34_RevokedViewerDenied ==
    /\ [](\A u \in UserIds, d \in DatasetIds :
             (users[u].role = "viewer" /\ NoAccessRow(u, d)) => DeniedAll(u, d))
    /\ [][\A u \in UserIds, d \in DatasetIds :
             (/\ users[u].role = "viewer"
              /\ ~NoAccessRow(u, d)
              /\ NoAccessRow(u, d)') => DeniedAll(u, d)']_vars

(* A viewer without a DatasetAccess row for a published dataset of their   *)
(* organization that has an item and a stored asset: the publisher of the  *)
(* organization is served the stream with the token the viewer is refused  *)
(* with, and the signed URL is in the cache for the viewer.                *)
C34_Witness ==
    \E u, v \in UserIds, a \in AssetIds :
        LET d == assets[a].dataset_id
            t == MintedStreamToken(a, users[u].org_id)
        IN /\ users[u].role = "viewer" /\ users[v].org_id = users[u].org_id
           /\ assets[a].org_id = users[u].org_id /\ NoAccessRow(u, d)
           /\ datasets[d].status = "published" /\ assets[a].item_id # NULL
           /\ stream_asset_outcome(v, a, t, 0).status = 200
           /\ stream_asset_outcome(u, a, t, 0).status = 404
           /\ \E cache \in UrlCaches(a, u) :
                 /\ _get_cached_signed_url(cache, 60, a, u, 0).url = t
                 /\ get_signed_url_outcome(u, a, cache, 60, 0).status = 404

(***************************************************************************)
(* Stored objects after uploads, repeated and abandoned.                   *)
(***************************************************************************)
(* Request r, past the checks of upload_asset, ends. *)
UploadEnds(r) == req[r].pc = "upload" /\ req'[r].pc = "idle"

(* C35: every stored object has the length its Asset row declares, after   *)
(* any sequence of uploads; an unlinked asset of an open dataset accepts a *)
(* PUT with its unexpired token and the declared length whether or not an  *)
(* object is stored already, and the accepted PUT stores an object of that *)
(* length; no step of an upload changes an Asset row, and an upload that   *)
(* ends without writing changes nothing at all.                            *)
C35_UploadRepeatable ==
    /\ [](\A a \in AssetIds : storage[a] \in {0, DeclaredSize(a)})
    /\ [](\A a \in AssetIds : (Unlinked(a) /\ DatasetOpen(a)) =>
             \A now \in {0, upload_token_ttl_seconds} :
                 upload_asset_outcome(0, a, MintedUploadToken(a), DeclaredSize(a), now).status
                     = 200)
    /\ [][\A r \in Req :
             /\ (req[r].pc = "idle" /\ req'[r].pc = "upload")
                   => /\ Unlinked(req'[r].asset_id)
                      /\ assets' = assets /\ storage' = storage
             /\ UploadEnds(r)
                   => /\ assets' = assets
                      /\ storage'[req[r].asset_id] \in {storage[req[r].asset_id],
                                                        DeclaredSize(req[r].asset_id)}
                      /\ \A a \in AssetIds \ {req[r].asset_id} : storage'[a] = storage[a]
                      /\ <<users, datasets, items, annotations, dataset_access>>'
                            = <<users, datasets, items, annotations, dataset_access>>]_vars
    /\ [][(\E a \in AssetIds : storage'[a] # storage[a]) =>
             /\ assets' = assets
             /\ \A a \in AssetIds : storage'[a] \in {storage[a], DeclaredSize(a)}]_vars

(* An unlinked asset with its object stored and a second upload to it past *)
(* its checks, which may write the object again or be abandoned.           *)
C35_Witness ==
    \E r \in Req :
        /\ req[r].pc = "upload"
        /\ Unlinked(req[r].asset_id)
        /\ storage[req[r].asset_id] = DeclaredSize(req[r].asset_id)

(***************************************************************************)
(* Asset links after a publish or an append.                               *)
(***************************************************************************)
(* The asset ids the payloads of the manifest of request q reference. *)
ManifestRefs(q) == UNION {Refs(q.manifest[k]).ids : k \in 1..Len(q.manifest)}

(* C36: when a publish or an append commits, every asset its manifest      *)
(* references is linked to an Item row the request created, of the same    *)
(* dataset and organization as the asset, whose payload references the     *)
(* asset; every other asset keeps the item_id it had.                      *)
C36_LinksAfterCommit ==
    [][\A r \in Req :
           (req[r].pc = "commit" /\ req'[r].pc = "idle") =>
               LET q == req[r]
               IN /\ \A a \in AssetIds \ ManifestRefs(q) : assets'[a] = assets[a]
                  /\ Commits(r) =>
                        \A a \in ManifestRefs(q) :
                            /\ a \in AssetIds
                            /\ assets'[a].item_id # NULL
                            /\ \E it \in items' \ items :
                                  /\ it.id = assets'[a].item_id
                                  /\ it.dataset_id = q.dataset_id
                                  /\ it.dataset_id = assets'[a].dataset_id
                                  /\ it.org_id = assets'[a].org_id
                                  /\ a \in Refs(it.doc).ids]_vars

(* A committed manifest of two items that reference different assets: each *)
(* asset is linked to the item that references it, and the two items are   *)
(* not the same.                                                           *)
C36_Witness ==
    \E a, b \in AssetIds :
        /\ a # b
        /\ assets[a].item_id # NULL /\ assets[b].item_id # NULL
        /\ assets[a].item_id # assets[b].item_id
        /\ assets[a].dataset_id = assets[b].dataset_id
        /\ \E ia, ib \in items :
              /\ ia.id = assets[a].item_id /\ ib.id = assets[b].item_id
              /\ ia.id \div 10 = ib.id \div 10
              /\ a \in Refs(ia.doc).ids /\ b \in Refs(ib.doc).ids

(***************************************************************************)
(* The dataset list and the dataset gate.                                  *)
(***************************************************************************)
(* C37: in every reachable state a dataset is in the list list_datasets    *)
(* returns to a user exactly when get_dataset_for_user succeeds for that   *)
(* user and that dataset.                                                  *)
C37_ListAgreesWithGate ==
    \A u \in UserIds, d \in DatasetPaths :
        d \in list_datasets(u) <=> get_dataset_for_user(d, u).status = 200

(* A viewer with one dataset of the organization shared and another not:   *)
(* the list holds the first and not the second.                            *)
C37_Witness ==
    \E u \in UserIds, d, e \in DatasetIds :
        /\ users[u].role = "viewer"
        /\ datasets[d].org_id = users[u].org_id /\ datasets[e].org_id = users[u].org_id
        /\ d \in list_datasets(u) /\ e \notin list_datasets(u)
        /\ get_dataset_for_user(d, u).status = 200
        /\ get_dataset_for_user(e, u).status = 404

(***************************************************************************)
(* Properties of the signed-URL cache.                                     *)
(***************************************************************************)
CacheKeys(cache) == {<<cache[i].asset_id, cache[i].user_id>> : i \in DOMAIN cache}

AdmittedYounger(log, identifier, now) ==
    {k \in DOMAIN log : /\ log[k].identifier = identifier
                        /\ ~log[k].limited
                        /\ now - log[k].now < 60}

(* C39: _check_limit admits at most limit_per_minute calls of an           *)
(* identifier in any window of 60 seconds; a call is limited exactly when  *)
(* limit_per_minute or more calls of the identifier were admitted less     *)
(* than 60 seconds before it; a limited call adds no timestamp; and no     *)
(* call changes the bucket of another identifier.                          *)
C39_RateLimit ==
    /\ [](\A identifier \in Identifiers, limit \in RateLimits, start \in RateTimes :
             Cardinality({k \in DOMAIN probe.log :
                             /\ probe.log[k].identifier = identifier
                             /\ probe.log[k].limit_per_minute = limit
                             /\ ~probe.log[k].limited
                             /\ start <= probe.log[k].now
                             /\ probe.log[k].now < start + 60}) <= limit)
    /\ [][Len(probe'.log) > Len(probe.log) =>
             LET call == probe'.log[Len(probe'.log)]
                 before == _buckets[call.identifier]
                 after == _buckets'[call.identifier]
             IN /\ call.limited <=>
                      Cardinality(AdmittedYounger(probe.log, call.identifier, call.now))
                          >= call.limit_per_minute
                /\ call.limited => /\ Len(after) <= Len(before)
                                   /\ SeqToSet(after) \subseteq SeqToSet(before)
                /\ ~call.limited => /\ after[Len(after)] = call.now
                                    /\ Len(after) <= call.limit_per_minute
                /\ \A other \in Identifiers \ {call.identifier} :
                      _buckets'[other] = _buckets[other]]_vars

(* A call limited at 59 seconds after an admitted call of its identifier,  *)
(* and a call of the same identifier admitted at 60, when the admitted one *)
(* is 60 seconds old, while the other identifier has a call recorded.      *)
C39_Witness ==
    /\ probe.now = 60
    /\ \E i, j, k \in DOMAIN probe.log :
          /\ i < j /\ j < k
          /\ probe.log[i].identifier = probe.log[k].identifier
          /\ probe.log[j].identifier = probe.log[k].identifier
          /\ ~probe.log[i].limited /\ probe.log[i].now = 0
          /\ probe.log[j].limited /\ probe.log[j].now = 59
          /\ ~probe.log[k].limited /\ probe.log[k].now = 60
    /\ \E other \in Identifiers : Len(_buckets[other]) = 1 /\ _buckets[other][1] = 1

(***************************************************************************)
(* Properties of the SDK's upload retry.                                   *)
(***************************************************************************)
RetryEnded == probe.pc \in {"returned", "raised"}

(* C40: _put_file_with_retry always ends; it makes at most max_retries     *)
(* PUTs; it returns exactly after its first successful PUT, which is its   *)
(* last; it makes another PUT only after an HTTP error; and after          *)
(* max_retries PUTs that all ended in an HTTP error it has raised the last *)
(* of them.                                                                *)
C40_RetryTerminates ==
    /\ <>RetryEnded
    /\ [](/\ Len(probe.log) <= max_retries
          /\ \A k \in 1..(Len(probe.log) - 1) : probe.log[k] \in HTTPError
          /\ probe.pc = "returned" <=>
                (probe.log # <<>> /\ probe.log[Len(probe.log)] = "ok")
          /\ (Len(probe.log) = max_retries /\ probe.log[max_retries] \in HTTPError) =>
                (probe.pc = "raised" /\ probe.raised = probe.log[max_retries])
          /\ (probe.pc = "raised" /\ probe.log # <<>>) =>
                /\ probe.raised = probe.log[Len(probe.log)]
                /\ probe.raised \in HTTPError => Len(probe.log) = max_retries)
    /\ [][RetryEnded => probe' = probe]_vars

(* max_retries PUTs that ended in HTTP errors, not all the same, and the   *)
(* last of them raised.                                                    *)
C40_Witness ==
    /\ probe.pc = "raised"
    /\ Len(probe.log) = max_retries
    /\ probe.raised = "ReadTimeout"
    /\ probe.log[1] = "ConnectError"
    /\ probe.log[max_retries] = "ReadTimeout"
====
